---------------------------- MODULE Spec2Model ----------------------------
(***************************************************************************)
(* A model of two parts of the Kannel gateway:                             *)
(*   gw/timers.c  - a set of timers kept in a heap, watched by a thread    *)
(*   gwlib/conn.c - a buffered non-blocking Connection                     *)
(*                                                                         *)
(* Every operation of timers.c runs between lock(set) and unlock(set), so  *)
(* an action of the timer part is one whole critical section: the states   *)
(* of the model are the states in which the set mutex is free.  What a     *)
(* thread does after unlock (gwthread_wakeup, gwthread_sleep) is a step of *)
(* its own.                                                                *)
(***************************************************************************)
EXTENDS Integers, Sequences, FiniteSets, TLC

\* ------------------------------------------------------------------ bounds
NTimers      == 2   \* timers of the set in Spec
MaxInterval  == 1   \* intervals passed to timer_start are 0..MaxInterval
MaxClock     == 2   \* time(NULL) runs from 1 to MaxClock
MaxCalls     == 3   \* timer_start and timer_stop calls of one behaviour of Spec
NHeapTimers  == 7   \* timers of the set in SpecHeap
NFairTimers  == 1   \* timers of the set in FairSpec
NDestroyTimers  == 2   \* timers of the set in FairDestroy
MaxDestroyCalls == 2   \* timer_start calls before timerset_destroy in FairDestroy
MaxFairCalls == 2   \* timer_start and timer_stop calls of one behaviour of FairSpec
NConsumerTimers  == 1   \* timers of the set in SpecConsumer
MaxConsumerCalls == 3   \* timer_start and timer_stop calls of one behaviour of SpecConsumer

MaxConnCalls == 2  \* calls of conn_* functions
MaxSends == 1      \* chunks of octets the peer sends
MaxLength == 1     \* largest length asked of conn_read_fixed
MaxBuffering == 1  \* largest size given to conn_set_output_buffering
MaxOutBuffering == 2  \* the same in SpecOut
NFdsets == 1       \* FDSets a connection may be registered with
NRegFdsets == 2    \* the same in SpecReg
MaxSkips == 1      \* negative lengths before a frame in SpecWithlen
MaxFrame == 2      \* longest frame that arrives whole in SpecWithlen

\* ------------------------------------------------------- program constants
NULL        == 0        \* the null pointer
VeryLong    == 1000000  \* gwthread_sleep(1000000.0)
DEFAULT_OUTPUT_BUFFERING == 0

VARIABLES
    now,            \* time(NULL)
    heap,           \* set->heap: a List of timers, position 0 first
    elapses,        \* timer->elapses
    event,          \* timer->event
    elapsed_event,  \* timer->elapsed_event: NULL or the address of a WAPEvent
    index,          \* timer->index
    output,         \* set->output: a List of items [ptr, by, of, at]: the pointer, and
                    \* for the record the timer it was produced for, the event it
                    \* duplicates and the elapses value of the timer at that time
    mem,            \* the WAPEvents the watcher allocated, by address
    held,           \* the item the consumer of the output list took and still has
    pipe,           \* the watcher thread's wakeup is pending
    wpc,            \* where the watcher thread is: "run" (at the test of its
                    \* loop), "turn" (past the test), "sleep" or "exit"
    sleep_until,    \* when its gwthread_sleep times out
    cpc,            \* where the caller thread is: "idle", "wakeup", or a place
                    \* in timerset_destroy
    stopping,       \* set->stopping
    destroy_top,    \* what list_get gave timerset_destroy, if it is about to
                    \* call timer_stop with it; or else 0
    panic,          \* the gw_assert that failed, or "none"
    calls,          \* timer_start and timer_stop calls made so far
    \* history of the run, kept for stating the properties
    nprod,          \* per timer: list_produce calls for it since its last start or stop
    lastprod,       \* the elapses value of the timer that elapsed last
    stopped,        \* per timer: timer_stop returned and no timer_start came since
    short,          \* per timer: pending after a re-start that made its deadline earlier
    lastP,          \* per timer: the last non-null event given to timer_start
    owner_err       \* the timer destroyed a WAPEvent that was not on the output list

tvars == <<now, heap, elapses, event, elapsed_event, index, output, mem, held,
           pipe, wpc, sleep_until, cpc, panic, calls,
           nprod, lastprod, stopped, short, lastP, owner_err, stopping, destroy_top>>

Timers == DOMAIN elapses
Addrs  == DOMAIN mem

\* ------------------------------------------------------------ gwlib List
list_len(list) == Len(list)
list_get(list, pos) == list[pos + 1]
list_swap(list, a, b) == [list EXCEPT ![a + 1] = list[b + 1], ![b + 1] = list[a + 1]]
list_delete_last(list) == SubSeq(list, 1, Len(list) - 1)
\* list_delete_equal: every item equal to ptr is removed; count is how many
list_delete_equal(list, ptr) == SelectSeq(list, LAMBDA x : x.ptr # ptr)
count_equal(list, ptr) == Len(list) - Len(list_delete_equal(list, ptr))

\* ------------------------------------------------------------------ heap
\* H is [heap, index]: the list and every timer's index field; el is every
\* timer's elapses field.
\* heap_swap that forgets the index fields
heap_swap_noindex(H, index1, index2) ==
    [heap |-> list_swap(H.heap, index1, index2), index |-> H.index]

heap_swap(H, index1, index2) ==
    LET l == list_swap(H.heap, index1, index2)
    IN  [heap  |-> l,
         index |-> [t \in DOMAIN H.index |->
                       IF t = list_get(l, index2) THEN index2
                       ELSE IF t = list_get(l, index1) THEN index1
                       ELSE H.index[t]]]

RECURSIVE move_up(_, _, _)
move_up(H, el, idx) ==
    LET t      == list_get(H.heap, idx)
        parent == list_get(H.heap, idx \div 2)
    IN  IF el[t] < el[parent]
        THEN move_up(heap_swap(H, idx, idx \div 2), el, idx \div 2)
        ELSE [H |-> H, ret |-> IF idx = 0 THEN 1 ELSE 0]

RECURSIVE move_down(_, _, _)
move_down(H, el, idx) ==
    LET t           == list_get(H.heap, idx)
        child_index == idx * 2
    IN  IF child_index >= list_len(H.heap) THEN H
        ELSE IF child_index = list_len(H.heap) - 1
        THEN IF el[list_get(H.heap, child_index)] < el[t]
             THEN heap_swap(H, idx, child_index)
             ELSE H
        ELSE LET c == IF el[list_get(H.heap, child_index + 1)]
                          < el[list_get(H.heap, child_index)]
                      THEN child_index + 1 ELSE child_index
             IN  IF el[list_get(H.heap, c)] < el[t]
                 THEN move_down(heap_swap(H, idx, c), el, c)
                 ELSE H

\* heap_adjust returns [H, ret]: ret is 1 if the timer moved up to the top.
\* First as it would be if it only ever moved a timer toward the bottom.
heap_adjust_down(H, el, idx) ==
    [H |-> move_down(H, el, idx), ret |-> 0]

heap_adjust(H, el, idx) ==
    LET t      == list_get(H.heap, idx)
        parent == list_get(H.heap, idx \div 2)
    IN  IF el[t] < el[parent]
        THEN move_up(H, el, idx)
        ELSE [H |-> move_down(H, el, idx), ret |-> 0]

\* heap_delete that does not move the swapped element to its place
heap_delete_noadjust(H, el, idx) ==
    LET t    == list_get(H.heap, idx)
        last == list_len(H.heap) - 1
        D    == heap_swap(H, idx, last)
    IN  [heap |-> list_delete_last(D.heap), index |-> [D.index EXCEPT ![t] = -1]]

heap_delete(H, el, idx) ==
    LET t    == list_get(H.heap, idx)
        last == list_len(H.heap) - 1
        cut(G) == [heap |-> list_delete_last(G.heap), index |-> G.index]
        D    == IF idx = last
                THEN cut(H)
                ELSE heap_adjust(cut(heap_swap(H, idx, last)), el, idx).H
    IN  [heap |-> D.heap, index |-> [D.index EXCEPT ![t] = -1]]

\* heap_insert that leaves the new timer at the end
heap_insert_noadjust(H, el, timer) ==
    [heap |-> Append(H.heap, timer),
     index |-> [H.index EXCEPT ![timer] = list_len(H.heap)]]

heap_insert(H, el, timer) ==
    LET l == Append(H.heap, timer)
        A == [heap |-> l, index |-> [H.index EXCEPT ![timer] = list_len(l) - 1]]
    IN  heap_adjust(A, el, list_len(l) - 1).H

\* --------------------------------------------------------------- WAPEvent
\* wap_event_duplicate: the addresses the copy may get; no copy of no event
wap_event_duplicate(ev) ==
    IF ev = NULL THEN {NULL} ELSE {a \in Addrs : mem[a] = "free"}

\* --------------------------------------------------------------- timers.c
\* abort_elapsed that leaves elapsed_event set
abort_elapsed_keep(timer) ==
    IF elapsed_event[timer] = NULL
    THEN UNCHANGED <<elapsed_event, output, mem, owner_err>>
    ELSE LET ptr   == elapsed_event[timer]
             count == count_equal(output, ptr)
         IN  /\ output' = list_delete_equal(output, ptr)
             /\ IF count > 0
                THEN /\ mem' = [mem EXCEPT ![ptr] = "free"]
                     /\ owner_err' = (owner_err \/ mem[ptr] # "queued")
                ELSE UNCHANGED <<mem, owner_err>>
             /\ UNCHANGED elapsed_event

\* abort_elapsed that destroys the event whether or not it was still listed
abort_elapsed_destroy(timer) ==
    IF elapsed_event[timer] = NULL
    THEN UNCHANGED <<elapsed_event, output, mem, owner_err>>
    ELSE LET ptr == elapsed_event[timer]
         IN  /\ output' = list_delete_equal(output, ptr)
             /\ mem' = [mem EXCEPT ![ptr] = "free"]
             /\ owner_err' = (owner_err \/ mem[ptr] # "queued")
             /\ elapsed_event' = [elapsed_event EXCEPT ![timer] = NULL]

abort_elapsed(timer) ==
    IF elapsed_event[timer] = NULL
    THEN UNCHANGED <<elapsed_event, output, mem, owner_err>>
    ELSE LET ptr   == elapsed_event[timer]
             count == count_equal(output, ptr)
         IN  /\ output' = list_delete_equal(output, ptr)
             /\ IF count > 0
                THEN /\ mem' = [mem EXCEPT ![ptr] = "free"]
                     /\ owner_err' = (owner_err \/ mem[ptr] # "queued")
                ELSE UNCHANGED <<mem, owner_err>>
             /\ elapsed_event' = [elapsed_event EXCEPT ![timer] = NULL]

\* timer_start, resetting a pending timer to abs: must the watcher wake up?
\* ret is what heap_adjust returned.
wakeup_reset_moved(timer, abs, ret) == ret = 1

wakeup_reset(timer, abs, ret) ==
    (abs < elapses[timer] /\ index[timer] = 0) \/ ret = 1

\* timer_start, activating a timer that the heap put at idx: a new top?
wakeup_new_never(idx) == FALSE

wakeup_new_always(idx) == TRUE

wakeup_new(idx) == idx = 0

in_heap_at(timer) ==
    /\ index[timer] \in 0 .. (list_len(heap) - 1)
    /\ list_get(heap, index[timer]) = timer

timer_start(timer, interval, ev) ==
    /\ panic = "none" /\ cpc = "idle"
    /\ ev # NULL \/ event[timer] # NULL
    /\ calls' = calls + 1
    /\ LET abs == interval + now
       IN  IF elapses[timer] > 0
           THEN IF ~in_heap_at(timer)
                THEN /\ panic' = "timer_start: list_get(heap, index) == timer"
                     /\ UNCHANGED <<heap, elapses, event, elapsed_event, index, output,
                                    mem, cpc, nprod, stopped, short, lastP, owner_err>>
                ELSE LET el == [elapses EXCEPT ![timer] = abs]
                         A  == heap_adjust([heap |-> heap, index |-> index], el,
                                           index[timer])
                     IN  /\ elapses' = el
                         /\ heap' = A.H.heap
                         /\ index' = A.H.index
                         /\ event' = IF ev # NULL THEN [event EXCEPT ![timer] = ev]
                                     ELSE event
                         /\ cpc' = IF wakeup_reset(timer, abs, A.ret) THEN "wakeup" ELSE "idle"
                         /\ short' = [short EXCEPT ![timer] = (abs < elapses[timer])]
                         /\ UNCHANGED <<elapsed_event, output, mem, owner_err, panic>>
           ELSE IF index[timer] >= 0
                THEN /\ panic' = "timer_start: index < 0"
                     /\ UNCHANGED <<heap, elapses, event, elapsed_event, index, output,
                                    mem, cpc, nprod, stopped, short, lastP, owner_err>>
                ELSE LET el == [elapses EXCEPT ![timer] = abs]
                         A  == heap_insert([heap |-> heap, index |-> index], el, timer)
                     IN  /\ abort_elapsed(timer)
                         /\ elapses' = el
                         /\ heap' = A.heap
                         /\ index' = A.index
                         /\ cpc' = IF wakeup_new(A.index[timer]) THEN "wakeup" ELSE "idle"
                         /\ short' = [short EXCEPT ![timer] = FALSE]
                         /\ UNCHANGED <<event, panic>>
    /\ panic' = "none" =>
          /\ nprod' = [nprod EXCEPT ![timer] = 0]
          /\ stopped' = [stopped EXCEPT ![timer] = FALSE]
          /\ lastP' = IF ev # NULL THEN [lastP EXCEPT ![timer] = ev] ELSE lastP
    /\ UNCHANGED <<now, held, pipe, wpc, sleep_until, lastprod, stopping, destroy_top>>

\* timer_stop from lock to unlock
timer_stop_locked(timer) ==
    /\ calls' = calls + 1
    /\ IF elapses[timer] > 0 /\ ~in_heap_at(timer)
       THEN /\ panic' = "timer_stop: list_get(heap, index) == timer"
            /\ UNCHANGED <<heap, elapses, elapsed_event, index, output, mem,
                           nprod, stopped, short, owner_err>>
       ELSE /\ IF elapses[timer] > 0
               THEN LET el == [elapses EXCEPT ![timer] = -1]
                        D  == heap_delete([heap |-> heap, index |-> index], el,
                                          index[timer])
                    IN  elapses' = el /\ heap' = D.heap /\ index' = D.index
               ELSE UNCHANGED <<elapses, heap, index>>
            /\ abort_elapsed(timer)
            /\ nprod' = [nprod EXCEPT ![timer] = 0]
            /\ stopped' = [stopped EXCEPT ![timer] = TRUE]
            /\ short' = [short EXCEPT ![timer] = FALSE]
            /\ UNCHANGED panic
    /\ UNCHANGED <<now, event, held, pipe, wpc, sleep_until, lastprod, lastP, stopping>>

timer_stop(timer) ==
    /\ panic = "none" /\ cpc = "idle"
    /\ timer_stop_locked(timer)
    /\ UNCHANGED <<cpc, destroy_top>>

\* gwthread_wakeup(set->timer_thread), after timer_start has unlocked the set
caller_wakeup ==
    /\ panic = "none" /\ cpc = "wakeup"
    /\ pipe' = TRUE
    /\ cpc' = "idle"
    /\ UNCHANGED <<now, heap, elapses, event, elapsed_event, index, output, mem, held,
                   wpc, sleep_until, panic, calls,
                   nprod, lastprod, stopped, short, lastP, owner_err, stopping, destroy_top>>

\* elapse_timer(top), the timer already deleted from the heap (D)
elapse_timer(timer, D) ==
    IF elapsed_event[timer] # NULL
    THEN /\ panic' = "elapse_timer: elapsed_event == NULL"
         /\ UNCHANGED <<heap, elapses, elapsed_event, index, output, mem,
                        nprod, lastprod, short>>
    ELSE \E a \in wap_event_duplicate(event[timer]) :
            /\ elapsed_event' = [elapsed_event EXCEPT ![timer] = a]
            /\ output' = Append(output, [ptr |-> a, by |-> timer, of |-> event[timer],
                                         at |-> elapses[timer]])
            /\ mem' = IF a = NULL THEN mem ELSE [mem EXCEPT ![a] = "queued"]
            /\ elapses' = [elapses EXCEPT ![timer] = -1]
            /\ heap' = D.heap
            /\ index' = D.index
            /\ nprod' = [nprod EXCEPT ![timer] = @ + 1]
            /\ lastprod' = elapses[timer]
            /\ short' = [short EXCEPT ![timer] = FALSE]
            /\ UNCHANGED panic

\* one turn of the loop of watch_timers, from lock(set) to unlock(set)
watch_turn_locked ==
    /\ \/ /\ list_len(heap) = 0
          /\ wpc' = "sleep"
          /\ sleep_until' = now + VeryLong
          /\ UNCHANGED <<heap, elapses, elapsed_event, index, output, mem, panic,
                         nprod, lastprod, short>>
       \/ /\ list_len(heap) > 0
          /\ elapses[list_get(heap, 0)] <= now
          /\ elapse_timer(list_get(heap, 0),
                          heap_delete([heap |-> heap, index |-> index], elapses, 0))
          /\ wpc' = "run"
          /\ UNCHANGED sleep_until
       \/ /\ list_len(heap) > 0
          /\ elapses[list_get(heap, 0)] > now
          /\ wpc' = "sleep"
          /\ sleep_until' = now + (elapses[list_get(heap, 0)] - now)
          /\ UNCHANGED <<heap, elapses, elapsed_event, index, output, mem, panic,
                         nprod, lastprod, short>>
    /\ UNCHANGED <<now, event, held, pipe, cpc, calls, stopped, lastP, owner_err,
                   stopping, destroy_top>>

\* the test of the loop and the turn in one step, where stopping never changes
watch_timers ==
    /\ panic = "none" /\ wpc = "run"
    /\ ~stopping
    /\ watch_turn_locked

\* the test of the loop of watch_timers alone
watch_test ==
    /\ panic = "none" /\ wpc = "run"
    /\ wpc' = IF stopping THEN "exit" ELSE "turn"
    /\ UNCHANGED <<now, heap, elapses, event, elapsed_event, index, output, mem, held,
                   pipe, sleep_until, cpc, panic, calls,
                   nprod, lastprod, stopped, short, lastP, owner_err, stopping, destroy_top>>

\* the turn after it
watch_turn ==
    /\ panic = "none" /\ wpc = "turn"
    /\ watch_turn_locked

\* timerset_destroy is called
timerset_destroy ==
    /\ panic = "none" /\ cpc = "idle"
    /\ cpc' = "destroy"
    /\ UNCHANGED <<now, heap, elapses, event, elapsed_event, index, output, mem, held,
                   pipe, wpc, sleep_until, panic, calls,
                   nprod, lastprod, stopped, short, lastP, owner_err, stopping, destroy_top>>

\* the test of its loop: list_len(set->heap) > 0, the set not locked
destroy_len ==
    /\ panic = "none" /\ cpc = "destroy"
    /\ cpc' = IF list_len(heap) > 0 THEN "destroy_get" ELSE "destroy_stopping"
    /\ UNCHANGED <<now, heap, elapses, event, elapsed_event, index, output, mem, held,
                   pipe, wpc, sleep_until, panic, calls,
                   nprod, lastprod, stopped, short, lastP, owner_err, stopping, destroy_top>>

\* list_get(set->heap, 0), the set not locked.  When the watcher has taken
\* the last timer off the heap since the test, position 0 is outside the
\* list: the gw_assert of list_get fails, or in a build without it list_get
\* gives what it finds in the slot, a timer that was on the heap.
destroy_get ==
    /\ panic = "none" /\ cpc = "destroy_get"
    /\ IF list_len(heap) > 0
       THEN /\ destroy_top' = list_get(heap, 0)
            /\ cpc' = "destroy_stop"
            /\ UNCHANGED panic
       ELSE \/ /\ panic' = "list_get: pos < list->len"
               /\ UNCHANGED <<cpc, destroy_top>>
            \/ /\ \E t \in Timers : destroy_top' = t
               /\ cpc' = "destroy_stop"
               /\ UNCHANGED panic
    /\ UNCHANGED <<now, heap, elapses, event, elapsed_event, index, output, mem, held,
                   pipe, wpc, sleep_until, calls,
                   nprod, lastprod, stopped, short, lastP, owner_err, stopping>>

\* timer_stop of what list_get gave
destroy_stop ==
    /\ panic = "none" /\ cpc = "destroy_stop"
    /\ timer_stop_locked(destroy_top)
    /\ cpc' = "destroy"
    /\ destroy_top' = 0

\* set->stopping = 1
destroy_stopping ==
    /\ panic = "none" /\ cpc = "destroy_stopping"
    /\ stopping' = TRUE
    /\ cpc' = "destroy_wakeup"
    /\ UNCHANGED <<now, heap, elapses, event, elapsed_event, index, output, mem, held,
                   pipe, wpc, sleep_until, panic, calls,
                   nprod, lastprod, stopped, short, lastP, owner_err, destroy_top>>

\* gwthread_wakeup(set->timer_thread)
destroy_wakeup ==
    /\ panic = "none" /\ cpc = "destroy_wakeup"
    /\ pipe' = TRUE
    /\ cpc' = "destroy_join"
    /\ UNCHANGED <<now, heap, elapses, event, elapsed_event, index, output, mem, held,
                   wpc, sleep_until, panic, calls,
                   nprod, lastprod, stopped, short, lastP, owner_err, stopping, destroy_top>>

\* gwthread_join(set->timer_thread) returns, and the set is freed
destroy_join ==
    /\ panic = "none" /\ cpc = "destroy_join"
    /\ wpc = "exit"
    /\ cpc' = "destroyed"
    /\ UNCHANGED <<now, heap, elapses, event, elapsed_event, index, output, mem, held,
                   pipe, wpc, sleep_until, panic, calls,
                   nprod, lastprod, stopped, short, lastP, owner_err, stopping, destroy_top>>

\* gwthread_sleep returns: its time is over, or a wakeup came (before or during it)
sleep_return ==
    /\ panic = "none" /\ wpc = "sleep"
    /\ pipe \/ now >= sleep_until
    /\ wpc' = "run"
    /\ pipe' = FALSE
    /\ UNCHANGED <<now, heap, elapses, event, elapsed_event, index, output, mem, held,
                   sleep_until, cpc, panic, calls,
                   nprod, lastprod, stopped, short, lastP, owner_err, stopping, destroy_top>>

\* the caller's thread that reads the output list: list_consume
NoItem == [ptr |-> NULL, by |-> 0, of |-> NULL, at |-> 0]

consume ==
    /\ panic = "none" /\ held = NoItem /\ list_len(output) > 0
    /\ held' = IF Head(output).ptr = NULL THEN NoItem ELSE Head(output)
    /\ output' = Tail(output)
    /\ mem' = IF Head(output).ptr = NULL THEN mem
              ELSE [mem EXCEPT ![Head(output).ptr] = "taken"]
    /\ UNCHANGED <<now, heap, elapses, event, elapsed_event, index,
                   pipe, wpc, sleep_until, cpc, panic, calls,
                   nprod, lastprod, stopped, short, lastP, owner_err, stopping, destroy_top>>

\* ... and destroys the event when it has handled it
consumer_destroy ==
    /\ panic = "none" /\ held # NoItem
    /\ mem' = [mem EXCEPT ![held.ptr] = "free"]
    /\ held' = NoItem
    /\ UNCHANGED <<now, heap, elapses, event, elapsed_event, index, output,
                   pipe, wpc, sleep_until, cpc, panic, calls,
                   nprod, lastprod, stopped, short, lastP, owner_err, stopping, destroy_top>>

\* time(NULL) moves on
Tick ==
    /\ panic = "none" /\ now < MaxClock
    /\ now' = now + 1
    /\ UNCHANGED <<heap, elapses, event, elapsed_event, index, output, mem, held,
                   pipe, wpc, sleep_until, cpc, panic, calls,
                   nprod, lastprod, stopped, short, lastP, owner_err, stopping, destroy_top>>

\* ================================================================= conn.c
\* A Connection over a non-blocking fd.  The fields of struct Connection are
\* the fields of the record conn.  Each section of code between lock_in /
\* lock_out and the matching unlock is one step; conn_wait and conn_flush,
\* which let go of the locks in between, take several.

VARIABLES
    conn,           \* struct Connection
    inlock,         \* conn->inlock: the function in which a thread locked
                    \* it and keeps it between steps, or "free"
    outlock,        \* conn->outlock, likewise
    lock_hist,      \* history of the locks, kept where hist.on: see locked
    rfd,            \* octets that arrived on the fd and are not read yet
    peer,           \* "open", or "closed": end of file follows rfd
    wait_pc,        \* the thread in conn_wait: "idle", "lock_in", "poll", "read"
    wait_events,    \* its local variable events, {} while it is idle
    flush_pc,       \* the thread in conn_flush: "idle", "poll"
    poll_pc,        \* the poller thread in poll_callback: "idle", "pollin",
                    \* "callback", "call"
    poller,         \* while it has not returned: its parameter revents, what
                    \* it has read of callback and callback_data for the call,
                    \* and which of the two it has still to read (late)
    cpanic,         \* a gw_assert of conn.c that failed, or "none"
    ccalls,         \* number of calls of conn_* functions so far
    csends,         \* number of chunks the peer has sent so far
    hist            \* history of the run, kept where hist.on: see note

cvars == <<conn, inlock, outlock, lock_hist, rfd, peer, wait_pc, wait_events, flush_pc, poll_pc,
           poller, cpanic, ccalls, csends, hist>>

vars == <<tvars, cvars>>

\* ---------------------------------------------------------- gwlib Octstr
octstr_len(ostr) == Len(ostr)

octstr_delete(ostr, pos, len) ==
    LET p == IF pos > Len(ostr) THEN Len(ostr) ELSE pos
        l == IF p + len > Len(ostr) THEN Len(ostr) - p ELSE len
    IN  SubSeq(ostr, 1, p) \o SubSeq(ostr, p + l + 1, Len(ostr))

octstr_copy(ostr, from, len) ==
    IF from >= Len(ostr) THEN <<>>
    ELSE SubSeq(ostr, from + 1, IF from + len > Len(ostr) THEN Len(ostr) ELSE from + len)

octstr_search_char(ostr, ch, pos) ==
    LET found == {i \in pos .. Len(ostr) - 1 : ostr[i + 1] = ch}
    IN  IF found = {} THEN -1 ELSE CHOOSE i \in found : \A j \in found : i <= j

\* what write(2) may return for the octets of ostr from position from on:
\* -1 for an error, 0 when it would block, or the number of octets it took
octstr_write_data(ostr, from) ==
    IF from >= Len(ostr) THEN {0} ELSE -1 .. (Len(ostr) - from)

\* four octets in network order, as a signed 32-bit number
decode_network_long(b) ==
    LET top == IF b[1] >= 128 THEN b[1] - 256 ELSE b[1]
    IN  ((top * 256 + b[2]) * 256 + b[3]) * 256 + b[4]

encode_network_long(n) ==
    << (n \div 16777216) % 256, (n \div 65536) % 256, (n \div 256) % 256, n % 256 >>

\* what read(2) may return for the fd: -1 with EINTR, EAGAIN or EWOULDBLOCK
\* (again), -1 with another error, 0 at the end of file, or the number of
\* octets read into buf
ReadRets ==
    {[len |-> -1, again |-> TRUE, buf |-> <<>>],
     [len |-> -1, again |-> FALSE, buf |-> <<>>]}
      \cup {[len |-> k, again |-> FALSE, buf |-> SubSeq(rfd, 1, k)] : k \in 1 .. Len(rfd)}
      \cup (IF rfd = <<>> /\ peer = "closed"
            THEN {[len |-> 0, again |-> FALSE, buf |-> <<>>]} ELSE {})

\* what gwthread_pollfd may return when asked for the set events: the set of
\* events found, {} after a timeout or a wakeup, {"FAILED"} for a value < 0
PollRets(events) ==
    {{"FAILED"}} \cup SUBSET (events \cup {"POLLERR", "POLLHUP", "POLLNVAL"})

\* ------------------------------------------------------- static helpers
unlocked_outbuf_len(c) == octstr_len(c.outbuf) - c.outbufpos

unlocked_inbuf_len(c) == octstr_len(c.inbuf) - c.inbufpos

unlocked_register_pollin(c, onoff) ==
    IF onoff /\ ~c.listening_pollin THEN [c EXCEPT !.listening_pollin = TRUE]
    ELSE IF ~onoff /\ c.listening_pollin THEN [c EXCEPT !.listening_pollin = FALSE]
    ELSE c

unlocked_register_pollout(c, onoff) ==
    IF onoff /\ ~c.listening_pollout THEN [c EXCEPT !.listening_pollout = TRUE]
    ELSE IF ~onoff /\ c.listening_pollout THEN [c EXCEPT !.listening_pollout = FALSE]
    ELSE c

\* the heuristic of unlocked_write that discards the written data
discard_written_keep(c) ==
    IF c.outbufpos > octstr_len(c.outbuf) \div 2
    THEN [c EXCEPT !.outbuf = octstr_delete(c.outbuf, 0, c.outbufpos)]
    ELSE c

discard_written(c) ==
    IF c.outbufpos > octstr_len(c.outbuf) \div 2
    THEN [c EXCEPT !.outbuf = octstr_delete(c.outbuf, 0, c.outbufpos),
                   !.outbufpos = 0]
    ELSE c

\* ret is what octstr_write_data returned; gives the connection afterwards
unlocked_write_nolisten(c, ret) ==
    IF ret < 0 THEN c
    ELSE discard_written([c EXCEPT !.outbufpos = c.outbufpos + ret])

unlocked_write(c, ret) ==
    IF ret < 0 THEN c
    ELSE LET c1 == discard_written([c EXCEPT !.outbufpos = c.outbufpos + ret])
         IN  IF c1.registered # NULL
             THEN unlocked_register_pollout(c1, unlocked_outbuf_len(c1) > 0)
             ELSE c1

\* gives the connection afterwards, the value returned, and whether it
\* called unlocked_write
unlocked_try_write_success(c, ret) ==
    LET len == unlocked_outbuf_len(c)
        c1  == unlocked_write(c, ret)
    IN  IF len = 0 THEN [c |-> c, ret |-> 0, wrote |-> FALSE]
        ELSE IF len < c.output_buffering THEN [c |-> c, ret |-> 0, wrote |-> FALSE]
        ELSE IF ret < 0 THEN [c |-> c1, ret |-> -1, wrote |-> TRUE]
        ELSE IF unlocked_outbuf_len(c1) > 0 THEN [c |-> c1, ret |-> 1, wrote |-> TRUE]
        ELSE [c |-> c1, ret |-> 0, wrote |-> TRUE]

unlocked_try_write(c, ret) ==
    LET len == unlocked_outbuf_len(c)
        c1  == unlocked_write(c, ret)
    IN  IF len = 0 THEN [c |-> c, ret |-> 0, wrote |-> FALSE]
        ELSE IF len < c.output_buffering THEN [c |-> c, ret |-> 1, wrote |-> FALSE]
        ELSE IF ret < 0 THEN [c |-> c1, ret |-> -1, wrote |-> TRUE]
        ELSE IF unlocked_outbuf_len(c1) > 0 THEN [c |-> c1, ret |-> 1, wrote |-> TRUE]
        ELSE [c |-> c1, ret |-> 0, wrote |-> TRUE]

\* rd is what read(2) returned
unlocked_read_again(c, rd) ==
    LET c1 == IF c.inbufpos > 0
              THEN [c EXCEPT !.inbuf = octstr_delete(c.inbuf, 0, c.inbufpos),
                             !.inbufpos = 0]
              ELSE c
    IN  IF rd.len < 0
        THEN IF rd.again THEN c1
             ELSE LET c2 == [c1 EXCEPT !.read_error = TRUE]
                  IN  IF c2.registered # NULL
                      THEN unlocked_register_pollin(c2, FALSE) ELSE c2
        ELSE IF rd.len = 0
        THEN LET c2 == [c1 EXCEPT !.read_eof = TRUE]
             IN  IF c2.registered # NULL
                 THEN unlocked_register_pollin(c2, FALSE) ELSE c2
        ELSE [c1 EXCEPT !.inbuf = c1.inbuf \o rd.buf, !.read_eof = FALSE]

unlocked_read(c, rd) ==
    LET c1 == IF c.inbufpos > 0
              THEN [c EXCEPT !.inbuf = octstr_delete(c.inbuf, 0, c.inbufpos),
                             !.inbufpos = 0]
              ELSE c
    IN  IF rd.len < 0
        THEN IF rd.again THEN c1
             ELSE LET c2 == [c1 EXCEPT !.read_error = TRUE]
                  IN  IF c2.registered # NULL
                      THEN unlocked_register_pollin(c2, FALSE) ELSE c2
        ELSE IF rd.len = 0
        THEN LET c2 == [c1 EXCEPT !.read_eof = TRUE]
             IN  IF c2.registered # NULL
                 THEN unlocked_register_pollin(c2, FALSE) ELSE c2
        ELSE [c1 EXCEPT !.inbuf = c1.inbuf \o rd.buf]

\* gives the connection afterwards, the octets cut, and whether the gw_assert held
unlocked_get(c, length) ==
    [c      |-> [c EXCEPT !.inbufpos = c.inbufpos + length],
     result |-> octstr_copy(c.inbuf, c.inbufpos, length),
     ok     |-> unlocked_inbuf_len(c) >= length]

\* ------------------------------------------------- the reading functions
\* Each gives the connection afterwards (c), whether it called unlocked_read
\* (read) and whether its gw_asserts held (ok).
conn_read_everything(c, rd) ==
    IF unlocked_inbuf_len(c) = 0
    THEN LET c1 == unlocked_read(c, rd)
         IN  IF unlocked_inbuf_len(c1) = 0
             THEN [c |-> c1, read |-> TRUE, ok |-> TRUE]
             ELSE LET g == unlocked_get(c1, unlocked_inbuf_len(c1))
                  IN  [c |-> g.c, read |-> TRUE, ok |-> g.ok]
    ELSE LET g == unlocked_get(c, unlocked_inbuf_len(c))
         IN  [c |-> g.c, read |-> FALSE, ok |-> g.ok]

conn_read_fixed(c, length, rd) ==
    IF unlocked_inbuf_len(c) < length
    THEN LET c1 == unlocked_read(c, rd)
         IN  IF unlocked_inbuf_len(c1) < length
             THEN [c |-> c1, read |-> TRUE, ok |-> TRUE]
             ELSE LET g == unlocked_get(c1, length)
                  IN  [c |-> g.c, read |-> TRUE, ok |-> g.ok]
    ELSE LET g == unlocked_get(c, length)
         IN  [c |-> g.c, read |-> FALSE, ok |-> g.ok]

conn_read_line(c, rd) ==
    LET pos0 == octstr_search_char(c.inbuf, 10, c.inbufpos)
        c1   == IF pos0 < 0 THEN unlocked_read(c, rd) ELSE c
        pos  == octstr_search_char(c1.inbuf, 10, c1.inbufpos)
    IN  IF pos < 0
        THEN [c |-> c1, read |-> TRUE, ok |-> TRUE]
        ELSE LET g == unlocked_get(c1, pos - c1.inbufpos)
             IN  [c |-> [g.c EXCEPT !.inbufpos = g.c.inbufpos + 1],
                  read |-> pos0 < 0, ok |-> g.ok]

\* the skip of a negative length in conn_read_withlen
skip_length(c) == [c EXCEPT !.inbufpos = c.inbufpos + 4]

\* one pass of the loop of conn_read_withlen from the label retry on;
\* done tells whether it reached the break
RECURSIVE withlen_try(_)
withlen_try(c) ==
    IF unlocked_inbuf_len(c) < 4
    THEN [c |-> c, done |-> FALSE, ok |-> TRUE, result |-> <<>>]
    ELSE LET length == decode_network_long(SubSeq(c.inbuf, c.inbufpos + 1, c.inbufpos + 4))
         IN  IF length < 0 THEN withlen_try(skip_length(c))
             ELSE IF unlocked_inbuf_len(c) - 4 < length
             THEN [c |-> c, done |-> FALSE, ok |-> TRUE, result |-> <<>>]
             ELSE LET g == unlocked_get([c EXCEPT !.inbufpos = c.inbufpos + 4], length)
                  IN  [c |-> g.c, done |-> TRUE, ok |-> g.ok, result |-> <<g.result>>]

\* conn_read_withlen; result is <<>> where it returns NULL, and the Octstr
\* it returns in a sequence of one otherwise.  First as it would be with one
\* pass of its loop only.
conn_read_withlen_once(c, rd) ==
    LET t1 == withlen_try(c)
    IN  [c |-> t1.c, read |-> FALSE, ok |-> t1.ok, result |-> t1.result]

conn_read_withlen(c, rd) ==
    LET t1 == withlen_try(c)
        t2 == withlen_try(unlocked_read(t1.c, rd))
    IN  IF t1.done THEN [c |-> t1.c, read |-> FALSE, ok |-> t1.ok, result |-> t1.result]
        ELSE [c |-> t2.c, read |-> TRUE, ok |-> t2.ok, result |-> t2.result]

\* one pass of the loop of conn_read_packet after the read
packet_try(c, startmark, endmark) ==
    LET startpos == octstr_search_char(c.inbuf, startmark, c.inbufpos)
        c1       == [c EXCEPT !.inbufpos = startpos]
        endpos   == octstr_search_char(c1.inbuf, endmark, c1.inbufpos)
    IN  IF startpos < 0
        THEN [c |-> [c EXCEPT !.inbufpos = octstr_len(c.inbuf)],
              done |-> FALSE, ok |-> TRUE]
        ELSE IF endpos < 0 THEN [c |-> c1, done |-> FALSE, ok |-> TRUE]
        ELSE LET g == unlocked_get(c1, endpos - startpos + 1)
             IN  [c |-> g.c, done |-> TRUE, ok |-> g.ok]

conn_read_packet(c, startmark, endmark, rd) ==
    LET t1 == packet_try(c, startmark, endmark)
        t2 == packet_try(unlocked_read(t1.c, rd), startmark, endmark)
    IN  IF t1.done THEN [c |-> t1.c, read |-> FALSE, ok |-> t1.ok]
        ELSE [c |-> t2.c, read |-> TRUE, ok |-> t2.ok]

\* ------------------------------------------------------------- the steps
\* The history of the run, for the properties that speak of more than the
\* fields of the Connection:
\*   op, ret   the function whose locked section the latest step ran to its
\*             return and the value it returned; or "read" and what read(2)
\*             returned to unlocked_read in the latest step; or "callback"
\*             and the function that poll_callback called in the latest
\*             step; or "none" and 0
\*   wrote     what the latest step did to send octets: "no", nothing;
\*             "skipped", unlocked_try_write returned without a call of
\*             unlocked_write; "failed", unlocked_write returned -1; "done",
\*             unlocked_write returned the number of octets written
\*   args      fdset, callback and data, if the latest step ran conn_register;
\*             the function called and its data, if it called the callback
\*   reader, result   "conn_read_withlen" and what it returned, if the latest
\*             step ran it: <<>> for NULL, or the Octstr in a sequence of one
\*   polled    the revents with which the latest step entered poll_callback,
\*             {"none"} if it did not
\*   lodged    the fdsets for which fdset_register was called and
\*             fdset_unregister was not called after it
\*   sent      the octets that write(2) has taken from the fd so far
\*   written   the octets given to conn_write, conn_write_data and
\*             conn_write_withlen so far, in the order of their lock_out
\* A specification whose properties need no history starts with on = FALSE
\* and its history stays as it is.
note(h) == IF hist.on THEN h ELSE hist

\* the history after a step in which no function returned a value
quiet == [hist EXCEPT !.op = "none", !.ret = 0, !.wrote = "no", !.polled = {"none"},
                       !.args = <<>>, !.reader = "none", !.result = <<>>]

\* lodged after fdset_unregister for fdset: one entry less
unlodge(lodged, fdset) ==
    LET at == {i \in 1 .. Len(lodged) : lodged[i] = fdset}
        i  == CHOOSE k \in at : \A j \in at : k <= j
    IN  IF at = {} THEN lodged
        ELSE SubSeq(lodged, 1, i - 1) \o SubSeq(lodged, i + 1, Len(lodged))

\* the history after a step that called unlocked_read, where read(2)
\* returned rd
after_read(rd) == [quiet EXCEPT !.op = "read", !.ret = rd.len]

\* the octets write(2) takes when octstr_write_data returns ret
fd_took(c, ret) ==
    IF ret > 0 THEN SubSeq(c.outbuf, c.outbufpos + 1, c.outbufpos + ret) ELSE <<>>

\* the history after a step that called unlocked_write on c, where
\* octstr_write_data returned ret, and in which no function returned a value
after_write(c, ret) ==
    [quiet EXCEPT !.wrote = IF ret < 0 THEN "failed" ELSE "done",
                  !.sent = hist.sent \o fd_took(c, ret)]

\* the same for unlocked_try_write, t being what it gave
after_try_write(c, ret, t) ==
    IF t.wrote THEN after_write(c, ret) ELSE [quiet EXCEPT !.wrote = "skipped"]

\* the end of a step that ran a reading function with result r
in_done(r, rd) ==
    /\ conn' = r.c
    /\ rfd' = IF r.read /\ rd.len > 0 THEN SubSeq(rfd, rd.len + 1, Len(rfd)) ELSE rfd
    /\ cpanic' = IF r.ok THEN cpanic ELSE "unlocked_get: unlocked_inbuf_len(conn) >= length"
    /\ hist' = note(IF r.read THEN after_read(rd) ELSE quiet)

\* The locks.  cs are the calls of lock_in, unlock_in, lock_out and
\* unlock_out that a step of the function fn makes, in their order.
\* lock_call gives the locks after one of them:
\*   free     every mutex_lock so far found its mutex free
\*   nested   a lock_out was made by a thread that held the inlock
\*   both     the thread held both locks at a time
lock_call(L, call, fn) ==
    LET M == L
    IN  IF call = "lock_in"
        THEN [inlock |-> fn, outlock |-> M.outlock,
              free   |-> M.free /\ M.inlock = "free",
              nested |-> M.nested,
              both   |-> M.both \/ M.outlock = fn]
        ELSE IF call = "lock_out"
        THEN [inlock |-> M.inlock, outlock |-> fn,
              free   |-> M.free /\ M.outlock = "free",
              nested |-> M.nested \/ M.inlock = fn,
              both   |-> M.both \/ M.inlock = fn]
        ELSE IF call = "unlock_in" THEN [M EXCEPT !.inlock = "free"]
        ELSE [M EXCEPT !.outlock = "free"]

RECURSIVE lock_calls(_, _, _)
lock_calls(L, cs, fn) ==
    IF cs = <<>> THEN L
    ELSE lock_calls(lock_call(L, Head(cs), fn), Tail(cs), fn)

\* a step of fn that makes these calls: it can be taken when it finds free
\* the locks it takes.  lock_hist.nested tells whether any step so far made
\* a nested lock_out, lock_hist.both which functions held both locks.
locked(fn, cs) ==
    LET L == lock_calls([inlock |-> inlock, outlock |-> outlock, free |-> TRUE,
                         nested |-> FALSE, both |-> FALSE], cs, fn)
    IN  /\ L.free
        /\ inlock' = L.inlock
        /\ outlock' = L.outlock
        /\ lock_hist' = IF hist.on
                        THEN [nested |-> lock_hist.nested \/ L.nested,
                              both   |-> IF L.both THEN lock_hist.both \cup {fn}
                                         ELSE lock_hist.both]
                        ELSE lock_hist

\* what read(2) may return to a reading function whose result with EAGAIN
\* is r: nothing but EAGAIN is drawn for a call that does not read
EAGAIN == [len |-> -1, again |-> TRUE, buf |-> <<>>]

ReadRetsFor(r) == IF r.read THEN ReadRets ELSE {EAGAIN}

\* a call of a function that does all its work in one locked section
call ==
    /\ cpanic = "none"
    /\ ccalls < MaxConnCalls
    /\ ccalls' = ccalls + 1

read_everything ==
    /\ call
    /\ locked("conn_read_everything", <<"lock_in", "unlock_in">>)
    /\ \E rd \in ReadRetsFor(conn_read_everything(conn, EAGAIN)) :
           in_done(conn_read_everything(conn, rd), rd)
    /\ UNCHANGED <<peer, wait_pc, wait_events, flush_pc, poll_pc, poller, csends>>

read_fixed(length) ==
    /\ call
    /\ locked("conn_read_fixed", <<"lock_in", "unlock_in">>)
    /\ \E rd \in ReadRetsFor(conn_read_fixed(conn, length, EAGAIN)) :
           in_done(conn_read_fixed(conn, length, rd), rd)
    /\ UNCHANGED <<peer, wait_pc, wait_events, flush_pc, poll_pc, poller, csends>>

read_line ==
    /\ call
    /\ locked("conn_read_line", <<"lock_in", "unlock_in">>)
    /\ \E rd \in ReadRetsFor(conn_read_line(conn, EAGAIN)) :
           in_done(conn_read_line(conn, rd), rd)
    /\ UNCHANGED <<peer, wait_pc, wait_events, flush_pc, poll_pc, poller, csends>>

read_withlen ==
    /\ call
    /\ locked("conn_read_withlen", <<"lock_in", "unlock_in">>)
    /\ \E rd \in ReadRetsFor(conn_read_withlen(conn, EAGAIN)) :
           LET r == conn_read_withlen(conn, rd)
           IN  /\ conn' = r.c
               /\ rfd' = IF r.read /\ rd.len > 0
                         THEN SubSeq(rfd, rd.len + 1, Len(rfd)) ELSE rfd
               /\ cpanic' = IF r.ok THEN cpanic
                            ELSE "unlocked_get: unlocked_inbuf_len(conn) >= length"
               /\ hist' = note([(IF r.read THEN after_read(rd) ELSE quiet) EXCEPT
                      !.reader = "conn_read_withlen", !.result = r.result])
    /\ UNCHANGED <<peer, wait_pc, wait_events, flush_pc, poll_pc, poller, csends>>

read_packet(startmark, endmark) ==
    /\ call
    /\ locked("conn_read_packet", <<"lock_in", "unlock_in">>)
    /\ \E rd \in ReadRetsFor(conn_read_packet(conn, startmark, endmark, EAGAIN)) :
           in_done(conn_read_packet(conn, startmark, endmark, rd), rd)
    /\ UNCHANGED <<peer, wait_pc, wait_events, flush_pc, poll_pc, poller, csends>>

\* conn_write, conn_write_data and conn_write_withlen: octets is what the
\* function appends to outbuf.  First as it would be if it put them
\* before what outbuf holds.
write_octets_front(octets) ==
    /\ call
    /\ locked("conn_write", <<"lock_out", "unlock_out">>)
    /\ LET c1 == [conn EXCEPT !.outbuf = octets \o conn.outbuf]
       IN  \E ret \in octstr_write_data(c1.outbuf, c1.outbufpos) :
               LET t == unlocked_try_write(c1, ret)
               IN  /\ conn' = t.c
                   /\ hist' = note([after_try_write(c1, ret, t) EXCEPT
                          !.op = "conn_write", !.ret = t.ret,
                          !.written = hist.written \o octets])
    /\ UNCHANGED <<rfd, peer, wait_pc, wait_events, flush_pc, poll_pc, poller,
                   cpanic, csends>>

write_octets(octets) ==
    /\ call
    /\ locked("conn_write", <<"lock_out", "unlock_out">>)
    /\ LET c1 == [conn EXCEPT !.outbuf = conn.outbuf \o octets]
       IN  \E ret \in octstr_write_data(c1.outbuf, c1.outbufpos) :
               LET t == unlocked_try_write(c1, ret)
               IN  /\ conn' = t.c
                   /\ hist' = note([after_try_write(c1, ret, t) EXCEPT
                          !.op = "conn_write", !.ret = t.ret,
                          !.written = hist.written \o octets])
    /\ UNCHANGED <<rfd, peer, wait_pc, wait_events, flush_pc, poll_pc, poller,
                   cpanic, csends>>

write(data) == write_octets(data)

write_data(data, length) == write_octets(SubSeq(data, 1, length))

write_withlen(data) == write_octets(encode_network_long(octstr_len(data)) \o data)

\* the getters: each takes one lock, reads, and releases it
getter(fn, cs) ==
    /\ call
    /\ locked(fn, cs)
    /\ hist' = note(quiet)
    /\ UNCHANGED <<conn, rfd, peer, wait_pc, wait_events, flush_pc, poll_pc,
                   poller, cpanic, csends>>

outbuf_len == getter("conn_outbuf_len", <<"lock_out", "unlock_out">>)

inbuf_len == getter("conn_inbuf_len", <<"lock_in", "unlock_in">>)

eof == getter("conn_eof", <<"lock_in", "unlock_in">>)

read_error == getter("conn_read_error", <<"lock_in", "unlock_in">>)

set_output_buffering(size) ==
    /\ call
    /\ locked("conn_set_output_buffering", <<"lock_out", "unlock_out">>)
    /\ LET c1 == [conn EXCEPT !.output_buffering = size]
       IN  \E ret \in octstr_write_data(c1.outbuf, c1.outbufpos) :
               LET t == unlocked_try_write(c1, ret)
               IN  /\ conn' = t.c
                   /\ hist' = note(after_try_write(c1, ret, t))
    /\ UNCHANGED <<rfd, peer, wait_pc, wait_events, flush_pc, poll_pc, poller,
                   cpanic, csends>>

\* the section of conn_register under both locks: gives the connection
\* afterwards, the value returned, and whether it called fdset_register.
\* First as it would be without the test for another fdset, and as it would
\* be if it always listened for POLLIN.
conn_register_anyway(c, fdset, callback, data) ==
    IF c.registered = fdset
    THEN [c |-> [c EXCEPT !.callback = callback, !.callback_data = data],
          ret |-> 0, lodged |-> FALSE]
    ELSE [c |-> [c EXCEPT
                   !.registered = fdset,
                   !.callback = callback,
                   !.callback_data = data,
                   !.listening_pollin = ~c.read_eof /\ ~c.read_error,
                   !.listening_pollout = unlocked_outbuf_len(c) > 0],
          ret |-> 0, lodged |-> TRUE]

conn_register_pollin(c, fdset, callback, data) ==
    IF c.registered = fdset
    THEN [c |-> [c EXCEPT !.callback = callback, !.callback_data = data],
          ret |-> 0, lodged |-> FALSE]
    ELSE IF c.registered # NULL THEN [c |-> c, ret |-> -1, lodged |-> FALSE]
    ELSE [c |-> [c EXCEPT
                   !.registered = fdset,
                   !.callback = callback,
                   !.callback_data = data,
                   !.listening_pollin = TRUE,
                   !.listening_pollout = unlocked_outbuf_len(c) > 0],
          ret |-> 0, lodged |-> TRUE]

conn_register(c, fdset, callback, data) ==
    IF c.registered = fdset
    THEN [c |-> [c EXCEPT !.callback = callback, !.callback_data = data],
          ret |-> 0, lodged |-> FALSE]
    ELSE IF c.registered # NULL THEN [c |-> c, ret |-> -1, lodged |-> FALSE]
    ELSE [c |-> [c EXCEPT
                   !.registered = fdset,
                   !.callback = callback,
                   !.callback_data = data,
                   !.listening_pollin = ~c.read_eof /\ ~c.read_error,
                   !.listening_pollout = unlocked_outbuf_len(c) > 0],
          ret |-> 0, lodged |-> TRUE]

\* conn_register; first as it would be with the locks taken in the other order
register_inlock_first(fdset, callback, data) ==
    /\ call
    /\ locked("conn_register", <<"lock_in", "lock_out", "unlock_in", "unlock_out">>)
    /\ LET r == conn_register(conn, fdset, callback, data)
       IN  /\ conn' = r.c
           /\ hist' = note([quiet EXCEPT
                  !.op = "conn_register", !.ret = r.ret,
                  !.args = <<fdset, callback, data>>,
                  !.lodged = IF r.lodged THEN Append(hist.lodged, fdset)
                             ELSE hist.lodged])
    /\ UNCHANGED <<rfd, peer, wait_pc, wait_events, flush_pc, poll_pc, poller,
                   cpanic, csends>>

register(fdset, callback, data) ==
    /\ call
    /\ locked("conn_register", <<"lock_out", "lock_in", "unlock_in", "unlock_out">>)
    /\ LET r == conn_register(conn, fdset, callback, data)
       IN  /\ conn' = r.c
           /\ hist' = note([quiet EXCEPT
                  !.op = "conn_register", !.ret = r.ret,
                  !.args = <<fdset, callback, data>>,
                  !.lodged = IF r.lodged THEN Append(hist.lodged, fdset)
                             ELSE hist.lodged])
    /\ UNCHANGED <<rfd, peer, wait_pc, wait_events, flush_pc, poll_pc, poller,
                   cpanic, csends>>

\* the section of conn_unregister under both locks: gives the connection
\* afterwards and the fdset it called fdset_unregister for, or NULL
conn_unregister(c) ==
    IF c.registered # NULL
    THEN [c |-> [c EXCEPT !.registered = NULL,
                          !.callback = NULL,
                          !.callback_data = NULL,
                          !.listening_pollin = FALSE,
                          !.listening_pollout = FALSE],
          unlodged |-> c.registered]
    ELSE [c |-> c, unlodged |-> NULL]

unregister ==
    /\ call
    /\ locked("conn_unregister", <<"lock_out", "lock_in", "unlock_in", "unlock_out">>)
    /\ LET r == conn_unregister(conn)
       IN  /\ conn' = r.c
           /\ hist' = note([quiet EXCEPT
                  !.op = "conn_unregister",
                  !.lodged = IF r.unlodged = NULL THEN hist.lodged
                             ELSE unlodge(hist.lodged, r.unlodged)])
    /\ UNCHANGED <<rfd, peer, wait_pc, wait_events, flush_pc, poll_pc, poller,
                   cpanic, csends>>

\* conn_destroy, ret being what octstr_write_data returned to its
\* unlocked_write: gives the connection as it is when conn_destroy frees
\* it and the fdset for which it called fdset_unregister.  registered is
\* left as it was when unlocked_write is called.
conn_destroy(c, ret) ==
    [c |-> [unlocked_write(c, ret) EXCEPT !.fd = -1],
     unlodged |-> c.registered]

\* conn_destroy does no locking: it is called when no thread is in a
\* function of conn.c for the connection
destroy ==
    /\ call
    /\ conn.fd >= 0
    /\ wait_pc = "idle" /\ flush_pc = "idle" /\ poll_pc = "idle"
    /\ \E ret \in octstr_write_data(conn.outbuf, conn.outbufpos) :
           LET r == conn_destroy(conn, ret)
           IN  /\ conn' = r.c
               /\ hist' = note([after_write(conn, ret) EXCEPT
                      !.op = "conn_destroy",
                      !.lodged = IF r.unlodged = NULL THEN hist.lodged
                                 ELSE unlodge(hist.lodged, r.unlodged)])
    /\ UNCHANGED <<inlock, outlock, lock_hist, rfd, peer, wait_pc, wait_events,
                   flush_pc, poll_pc, poller, cpanic, csends>>

\* poll_callback, called by the poller thread of the fdset with revents:
\* the section under outlock, if any, or else the one under inlock
poll_callback(revents) ==
    /\ cpanic = "none"
    /\ poll_pc = "idle"
    /\ conn.registered # NULL
    /\ ccalls < MaxConnCalls
    /\ ccalls' = ccalls + 1
    /\ IF "POLLOUT" \in revents
       THEN /\ locked("poll_callback", <<"lock_out", "unlock_out">>)
            /\ \E ret \in octstr_write_data(conn.outbuf, conn.outbufpos) :
                   /\ conn' = unlocked_write(conn, ret)
                   /\ hist' = note([after_write(conn, ret) EXCEPT !.polled = revents])
            /\ IF "POLLIN" \in revents
               THEN /\ poll_pc' = "pollin"
                    /\ poller' = [poller EXCEPT !.revents = revents]
               ELSE UNCHANGED <<poll_pc, poller>>
            /\ UNCHANGED rfd
       ELSE IF "POLLIN" \in revents
       THEN /\ locked("poll_callback", <<"lock_in", "unlock_in">>)
            /\ \E rd \in ReadRets :
                   /\ conn' = unlocked_read(conn, rd)
                   /\ rfd' = SubSeq(rfd, Len(rd.buf) + 1, Len(rfd))
                   /\ hist' = note([after_read(rd) EXCEPT !.polled = revents])
            /\ poll_pc' = "callback"
            /\ poller' = [poller EXCEPT !.revents = revents]
       ELSE /\ UNCHANGED <<conn, rfd, poll_pc, poller>>
            /\ hist' = note([quiet EXCEPT !.polled = revents])
            /\ locked("poll_callback", <<>>)
    /\ UNCHANGED <<peer, wait_pc, wait_events, flush_pc, cpanic, csends>>

\* the section of poll_callback under inlock, after the one under outlock;
\* first as it would be without the unlock_in
poll_callback_pollin_keep ==
    /\ cpanic = "none"
    /\ poll_pc = "pollin"
    /\ locked("poll_callback", <<"lock_in">>)
    /\ \E rd \in ReadRets :
           /\ conn' = unlocked_read(conn, rd)
           /\ rfd' = SubSeq(rfd, Len(rd.buf) + 1, Len(rfd))
           /\ hist' = note(after_read(rd))
    /\ poll_pc' = "callback"
    /\ UNCHANGED <<peer, wait_pc, wait_events, flush_pc, poller, cpanic, ccalls, csends>>

poll_callback_pollin ==
    /\ cpanic = "none"
    /\ poll_pc = "pollin"
    /\ locked("poll_callback", <<"lock_in", "unlock_in">>)
    /\ \E rd \in ReadRets :
           /\ conn' = unlocked_read(conn, rd)
           /\ rfd' = SubSeq(rfd, Len(rd.buf) + 1, Len(rfd))
           /\ hist' = note(after_read(rd))
    /\ poll_pc' = "callback"
    /\ UNCHANGED <<peer, wait_pc, wait_events, flush_pc, poller, cpanic, ccalls, csends>>

\* poll_callback after unlock_in: it reads conn->callback and
\* conn->callback_data for the call, holding no lock, in an order that the
\* compiler chooses.  This step reads the one it reads first; late is the
\* one it reads when it makes the call.
poll_callback_load ==
    /\ cpanic = "none"
    /\ poll_pc = "callback"
    /\ locked("poll_callback", <<>>)
    /\ \E late \in {"callback", "callback_data"} :
           poller' = IF late = "callback_data"
                     THEN [poller EXCEPT !.callback = conn.callback, !.late = late]
                     ELSE [poller EXCEPT !.callback_data = conn.callback_data,
                                         !.late = late]
    /\ poll_pc' = "call"
    /\ hist' = note(quiet)
    /\ UNCHANGED <<conn, rfd, peer, wait_pc, wait_events, flush_pc, cpanic, ccalls, csends>>

\* ... and reads the other and calls the function it read: the call of a
\* null pointer ends the program
poll_callback_call ==
    /\ cpanic = "none"
    /\ poll_pc = "call"
    /\ locked("poll_callback", <<>>)
    /\ LET callback == IF poller.late = "callback" THEN conn.callback
                       ELSE poller.callback
           data     == IF poller.late = "callback_data" THEN conn.callback_data
                       ELSE poller.callback_data
       IN  IF callback = NULL
           THEN /\ cpanic' = "poll_callback: conn->callback is NULL"
                /\ hist' = note(quiet)
           ELSE /\ hist' = note([quiet EXCEPT !.op = "callback", !.ret = callback,
                                              !.args = <<callback, data>>])
                /\ UNCHANGED cpanic
    /\ poller' = [revents |-> {}, callback |-> NULL, callback_data |-> NULL,
                  late |-> "none"]
    /\ poll_pc' = "idle"
    /\ UNCHANGED <<conn, rfd, peer, wait_pc, wait_events, flush_pc, ccalls, csends>>

\* conn_wait up to the first unlock_out
wait ==
    /\ call
    /\ wait_pc = "idle"
    /\ locked("conn_wait", <<"lock_out", "unlock_out">>)
    /\ \E ret \in octstr_write_data(conn.outbuf, conn.outbufpos) :
           LET c1 == unlocked_write(conn, ret)
           IN  /\ conn' = c1
               /\ hist' = note(after_write(conn, ret))
               /\ IF ret # 0
                  THEN UNCHANGED <<wait_pc, wait_events>>
                  ELSE /\ wait_pc' = "lock_in"
                       /\ wait_events' = IF unlocked_outbuf_len(c1) > 0
                                         THEN {"POLLOUT"} ELSE {}
    /\ UNCHANGED <<rfd, peer, flush_pc, poll_pc, poller, cpanic, csends>>

\* conn_wait: the section under inlock that looks at read_eof
wait_lock_in ==
    /\ cpanic = "none"
    /\ wait_pc = "lock_in"
    /\ locked("conn_wait", <<"lock_in", "unlock_in">>)
    /\ wait_events' = IF (~conn.read_eof /\ ~conn.read_error) \/ wait_events = {}
                      THEN wait_events \cup {"POLLIN"} ELSE wait_events
    /\ wait_pc' = "poll"
    /\ UNCHANGED <<conn, rfd, peer, flush_pc, poll_pc, poller, cpanic, ccalls, csends>>
    /\ hist' = note(quiet)

\* conn_wait: gwthread_pollfd returns ret, and the first section after it
wait_poll(ret) ==
    /\ cpanic = "none"
    /\ wait_pc = "poll"
    /\ IF ret = {"FAILED"} \/ ret = {} \/ "POLLNVAL" \in ret
       THEN /\ wait_pc' = "idle"
            /\ hist' = note(quiet)
            /\ locked("conn_wait", <<>>)
            /\ UNCHANGED <<conn, rfd>>
       ELSE IF ret \cap {"POLLERR", "POLLHUP"} # {}
       THEN /\ locked("conn_wait", <<"lock_in", "unlock_in">>)
            /\ \E rd \in ReadRets :
                   /\ conn' = unlocked_read(conn, rd)
                   /\ rfd' = SubSeq(rfd, Len(rd.buf) + 1, Len(rfd))
                   /\ hist' = note(after_read(rd))
            /\ wait_pc' = "idle"
       ELSE IF "POLLOUT" \in ret
       THEN /\ locked("conn_wait", <<"lock_out", "unlock_out">>)
            /\ \E wr \in octstr_write_data(conn.outbuf, conn.outbufpos) :
                   /\ conn' = unlocked_write(conn, wr)
                   /\ hist' = note(after_write(conn, wr))
            /\ wait_pc' = IF "POLLIN" \in ret THEN "read" ELSE "idle"
            /\ UNCHANGED rfd
       ELSE /\ locked("conn_wait", <<"lock_in", "unlock_in">>)
            /\ \E rd \in ReadRets :
                   /\ conn' = unlocked_read(conn, rd)
                   /\ rfd' = SubSeq(rfd, Len(rd.buf) + 1, Len(rfd))
                   /\ hist' = note(after_read(rd))
            /\ wait_pc' = "idle"
    /\ wait_events' = IF wait_pc' = "idle" THEN {} ELSE wait_events
    /\ UNCHANGED <<peer, flush_pc, poll_pc, poller, cpanic, ccalls, csends>>

\* conn_wait: the read after the write, when both POLLOUT and POLLIN were on
wait_read ==
    /\ cpanic = "none"
    /\ wait_pc = "read"
    /\ locked("conn_wait", <<"lock_in", "unlock_in">>)
    /\ \E rd \in ReadRets :
           /\ conn' = unlocked_read(conn, rd)
           /\ rfd' = SubSeq(rfd, Len(rd.buf) + 1, Len(rfd))
           /\ hist' = note(after_read(rd))
    /\ wait_pc' = "idle"
    /\ wait_events' = IF wait_pc' = "idle" THEN {} ELSE wait_events
    /\ UNCHANGED <<peer, flush_pc, poll_pc, poller, cpanic, ccalls, csends>>

\* conn_flush from the test of its loop on, c being the connection after
\* unlocked_write: out of the loop it returns 0 and there is no unlock_out
\* on that path; in the loop it unlocks and polls.  First as it would be
\* without the unlock_out before the poll.
flush_loop_keep(c) ==
    /\ conn' = c
    /\ IF unlocked_outbuf_len(c) # 0
       THEN /\ flush_pc' = "poll"
            /\ locked("conn_flush", <<"lock_out">>)
       ELSE /\ flush_pc' = "idle"
            /\ locked("conn_flush", <<"lock_out">>)

flush_loop(c) ==
    /\ conn' = c
    /\ IF unlocked_outbuf_len(c) # 0
       THEN /\ flush_pc' = "poll"
            /\ locked("conn_flush", <<"lock_out", "unlock_out">>)
       ELSE /\ flush_pc' = "idle"
            /\ locked("conn_flush", <<"lock_out">>)

\* conn_flush up to its first unlock_out or return
flush ==
    /\ call
    /\ flush_pc = "idle"
    /\ \E ret \in octstr_write_data(conn.outbuf, conn.outbufpos) :
           /\ hist' = note(after_write(conn, ret))
           /\ IF ret < 0
              THEN /\ UNCHANGED <<conn, flush_pc>>
                   /\ locked("conn_flush", <<"lock_out", "unlock_out">>)
              ELSE flush_loop(unlocked_write(conn, ret))
    /\ UNCHANGED <<rfd, peer, wait_pc, wait_events, poll_pc, poller, cpanic, csends>>

\* conn_flush: gwthread_pollfd returns revents, and the rest of the loop body
flush_poll(revents) ==
    /\ cpanic = "none"
    /\ flush_pc = "poll"
    /\ IF revents = {"FAILED"} \/ revents = {} \/ "POLLNVAL" \in revents
       THEN /\ flush_pc' = "idle"
            /\ hist' = note(quiet)
            /\ locked("conn_flush", <<>>)
            /\ UNCHANGED conn
       ELSE IF revents \cap {"POLLOUT", "POLLERR", "POLLHUP"} # {}
       THEN \E ret \in octstr_write_data(conn.outbuf, conn.outbufpos) :
               /\ hist' = note(after_write(conn, ret))
               /\ IF ret < 0
                  THEN /\ flush_pc' = "idle"
                       /\ locked("conn_flush", <<"lock_out", "unlock_out">>)
                       /\ UNCHANGED conn
                  ELSE flush_loop(unlocked_write(conn, ret))
       ELSE flush_loop(conn) /\ hist' = note(quiet)
    /\ UNCHANGED <<rfd, peer, wait_pc, wait_events, poll_pc, poller, cpanic, ccalls, csends>>

\* the other end of the fd
peer_send(octets) ==
    /\ peer = "open"
    /\ csends < MaxSends
    /\ csends' = csends + 1
    /\ rfd' = rfd \o octets
    /\ UNCHANGED <<conn, inlock, outlock, lock_hist, peer, wait_pc, wait_events, flush_pc, poll_pc, poller,
                   cpanic, ccalls>>
    /\ UNCHANGED hist

peer_close ==
    /\ peer = "open"
    /\ peer' = "closed"
    /\ UNCHANGED <<conn, inlock, outlock, lock_hist, rfd, wait_pc, wait_events, flush_pc, poll_pc, poller,
                   cpanic, ccalls, csends>>
    /\ UNCHANGED hist

\* the fd is one on which octets can follow an end of file, such as a FIFO
\* that another writer opens or a terminal
peer_reopen ==
    /\ peer = "closed"
    /\ peer' = "open"
    /\ UNCHANGED <<conn, inlock, outlock, lock_hist, rfd, wait_pc, wait_events, flush_pc, poll_pc, poller,
                   cpanic, ccalls, csends, hist>>

\* the Connection that conn_wrap_fd returns
conn_wrap_fd ==
    [fd |-> 0, outbuf |-> <<>>, outbufpos |-> 0,
     output_buffering |-> DEFAULT_OUTPUT_BUFFERING,
     inbuf |-> <<>>, inbufpos |-> 0,
     read_eof |-> FALSE, read_error |-> FALSE,
     registered |-> NULL, callback |-> NULL, callback_data |-> NULL,
     listening_pollin |-> FALSE, listening_pollout |-> FALSE]

\* the state in which the Connection is c, no thread is in a function of
\* conn.c and octets have arrived on the fd; on tells whether the history
\* is kept
ConnArrived(c, on, octets) ==
    /\ conn = c
    /\ inlock = "free"
    /\ outlock = "free"
    /\ lock_hist = [nested |-> FALSE, both |-> {}]
    /\ rfd = octets
    /\ peer = "open"
    /\ wait_pc = "idle"
    /\ wait_events = {}
    /\ flush_pc = "idle"
    /\ poll_pc = "idle"
    /\ poller = [revents |-> {}, callback |-> NULL, callback_data |-> NULL,
                 late |-> "none"]
    /\ cpanic = "none"
    /\ ccalls = 0
    /\ csends = 0
    /\ hist = [on |-> on, op |-> "none", ret |-> 0, wrote |-> "no", polled |-> {"none"},
               args |-> <<>>, reader |-> "none", result |-> <<>>,
               lodged |-> IF c.registered = NULL THEN <<>> ELSE <<c.registered>>,
               sent |-> <<>>,
               written |-> SubSeq(c.outbuf, c.outbufpos + 1, Len(c.outbuf))]

\* the same where the peer has sent nothing
ConnStarted(c, on) == ConnArrived(c, on, <<>>)

ConnInit == ConnStarted(conn_wrap_fd, FALSE)

\* ------------------------------------------------------- specifications
\* timerset_create and timer_create for n timers
TimerInit(n) ==
    /\ now = 1
    /\ heap = <<>>
    /\ elapses = [t \in 1 .. n |-> -1]
    /\ event = [t \in 1 .. n |-> NULL]
    /\ elapsed_event = [t \in 1 .. n |-> NULL]
    /\ index = [t \in 1 .. n |-> -1]
    /\ output = <<>>
    /\ mem = [a \in 1 .. n + 1 |-> "free"]
    /\ held = NoItem
    /\ pipe = FALSE
    /\ wpc = "run"
    /\ sleep_until = 0
    /\ cpc = "idle"
    /\ panic = "none"
    /\ calls = 0
    /\ nprod = [t \in 1 .. n |-> 0]
    /\ lastprod = 0
    /\ stopped = [t \in 1 .. n |-> FALSE]
    /\ short = [t \in 1 .. n |-> FALSE]
    /\ lastP = [t \in 1 .. n |-> NULL]
    /\ owner_err = FALSE
    /\ stopping = FALSE
    /\ destroy_top = 0

Init == TimerInit(NTimers) /\ ConnInit

Next ==
    \/ \E t \in Timers, i \in 0 .. MaxInterval, e \in {NULL, 1} :
          calls < MaxCalls /\ timer_start(t, i, e) /\ UNCHANGED cvars
    \/ \E t \in Timers : calls < MaxCalls /\ timer_stop(t) /\ UNCHANGED cvars
    \/ caller_wakeup /\ UNCHANGED cvars
    \/ watch_timers /\ UNCHANGED cvars
    \/ sleep_return /\ UNCHANGED cvars
    \/ Tick /\ UNCHANGED cvars

Spec == Init /\ [][Next]_vars

\* SpecConsumer: as Spec, and a thread of the caller consumes the output list
ConsumerInit == TimerInit(NConsumerTimers) /\ ConnInit

ConsumerNext ==
    \/ \E t \in Timers, i \in 0 .. MaxInterval, e \in {NULL, 1} :
          calls < MaxConsumerCalls /\ timer_start(t, i, e) /\ UNCHANGED cvars
    \/ \E t \in Timers : calls < MaxConsumerCalls /\ timer_stop(t) /\ UNCHANGED cvars
    \/ caller_wakeup /\ UNCHANGED cvars
    \/ watch_timers /\ UNCHANGED cvars
    \/ sleep_return /\ UNCHANGED cvars
    \/ consume /\ UNCHANGED cvars
    \/ consumer_destroy /\ UNCHANGED cvars
    \/ Tick /\ UNCHANGED cvars

SpecConsumer == ConsumerInit /\ [][ConsumerNext]_vars

\* SpecHeap: a set with many timers, to get at the shapes of the heap.  It
\* begins where the caller has created the set and the timers and has started
\* every timer once, timer 1 first, each with an interval of its choice,
\* before the watcher thread ran for the first time.
HeapIntervals == {1, 2}
MaxHeapCalls  == NHeapTimers + 1    \* every timer started once, and one call more

RECURSIVE started(_, _)
started(iv, n) ==
    IF n = 0
    THEN [heap |-> <<>>, index |-> [t \in DOMAIN iv |-> -1],
          el |-> [t \in DOMAIN iv |-> -1]]
    ELSE LET S  == started(iv, n - 1)
             el == [S.el EXCEPT ![n] = iv[n] + 1]
             A  == heap_insert([heap |-> S.heap, index |-> S.index], el, n)
         IN  [heap |-> A.heap, index |-> A.index, el |-> el]

InitHeap ==
    \E iv \in [1 .. NHeapTimers -> HeapIntervals] :
        LET S == started(iv, NHeapTimers)
        IN  /\ now = 1
            /\ heap = S.heap
            /\ elapses = S.el
            /\ index = S.index
            /\ event = [t \in 1 .. NHeapTimers |-> NULL]
            /\ elapsed_event = [t \in 1 .. NHeapTimers |-> NULL]
            /\ output = <<>>
            /\ mem = [a \in 1 .. NHeapTimers + 1 |-> "free"]
            /\ held = NoItem
            /\ pipe = TRUE
            /\ wpc = "run"
            /\ sleep_until = 0
            /\ cpc = "idle"
            /\ panic = "none"
            /\ calls = NHeapTimers
            /\ nprod = [t \in 1 .. NHeapTimers |-> 0]
            /\ lastprod = 0
            /\ stopped = [t \in 1 .. NHeapTimers |-> FALSE]
            /\ short = [t \in 1 .. NHeapTimers |-> FALSE]
            /\ lastP = [t \in 1 .. NHeapTimers |-> 1]
            /\ owner_err = FALSE
            /\ stopping = FALSE
            /\ destroy_top = 0
            /\ ConnInit

NextHeap ==
    \/ \E t \in Timers, i \in 0 .. MaxInterval :
          calls < MaxHeapCalls /\ timer_start(t, i, 1) /\ UNCHANGED cvars
    \/ \E t \in Timers : calls < MaxHeapCalls /\ timer_stop(t) /\ UNCHANGED cvars
    \/ caller_wakeup /\ UNCHANGED cvars
    \/ watch_timers /\ UNCHANGED cvars
    \/ sleep_return /\ UNCHANGED cvars

SpecHeap == InitHeap /\ [][NextHeap]_vars

\* FairSpec: the threads are scheduled fairly and the clock moves on.  The
\* output list is left unread.
FairInit == TimerInit(NFairTimers) /\ ConnInit

FairNext ==
    \/ \E t \in Timers, i \in 0 .. MaxInterval, e \in {NULL, 1} :
          calls < MaxFairCalls /\ timer_start(t, i, e) /\ UNCHANGED cvars
    \/ \E t \in Timers : calls < MaxFairCalls /\ timer_stop(t) /\ UNCHANGED cvars
    \/ caller_wakeup /\ UNCHANGED cvars
    \/ watch_timers /\ UNCHANGED cvars
    \/ sleep_return /\ UNCHANGED cvars
    \/ Tick /\ UNCHANGED cvars

FairSpec ==
    /\ FairInit /\ [][FairNext]_vars
    /\ WF_vars(watch_timers /\ UNCHANGED cvars)
    /\ WF_vars(sleep_return /\ UNCHANGED cvars)
    /\ WF_vars(caller_wakeup /\ UNCHANGED cvars)
    /\ WF_vars(Tick /\ UNCHANGED cvars)

\* SpecConn: one Connection, used by several threads, and the peer
\* what the peer sends at a time: a negative length and a frame of one octet,
\* or an octet and the end of a line
Chunks == {<<255, 255, 255, 255, 0, 0, 0, 1, 2>>, <<2, 13, 10>>}
Data == {<<>>, <<1>>, <<1, 1>>}
Marks == {2, 10}

NextConn ==
    \/ read_everything /\ UNCHANGED tvars
    \/ \E length \in 0 .. MaxLength : read_fixed(length) /\ UNCHANGED tvars
    \/ read_line /\ UNCHANGED tvars
    \/ read_withlen /\ UNCHANGED tvars
    \/ \E startmark \in Marks, endmark \in Marks :
          read_packet(startmark, endmark) /\ UNCHANGED tvars
    \/ \E data \in Data : write(data) /\ UNCHANGED tvars
    \/ \E data \in Data : write_data(data, Len(data)) /\ UNCHANGED tvars
    \/ \E data \in Data : write_withlen(data) /\ UNCHANGED tvars
    \/ \E size \in 0 .. MaxBuffering : set_output_buffering(size) /\ UNCHANGED tvars
    \/ \E fdset \in 1 .. NFdsets : register(fdset, 1, 1) /\ UNCHANGED tvars
    \/ unregister /\ UNCHANGED tvars
    \/ \E revents \in SUBSET {"POLLIN", "POLLOUT"} :
          poll_callback(revents) /\ UNCHANGED tvars
    \/ poll_callback_pollin /\ UNCHANGED tvars
    \/ poll_callback_load /\ UNCHANGED tvars
    \/ poll_callback_call /\ UNCHANGED tvars
    \/ wait /\ UNCHANGED tvars
    \/ wait_lock_in /\ UNCHANGED tvars
    \/ \E ret \in PollRets(wait_events) : wait_poll(ret) /\ UNCHANGED tvars
    \/ wait_read /\ UNCHANGED tvars
    \/ flush /\ UNCHANGED tvars
    \/ \E revents \in PollRets({"POLLOUT"}) : flush_poll(revents) /\ UNCHANGED tvars
    \/ \E octets \in Chunks : peer_send(octets) /\ UNCHANGED tvars
    \/ peer_close /\ UNCHANGED tvars

SpecConn == Init /\ [][NextConn]_vars

\* SpecOut: the output side of one Connection, with the history kept.  It
\* begins where the caller has wrapped the fd, has called
\* conn_set_output_buffering with a size of its choice and has or has not
\* called conn_register.  Nothing arrives on the fd.
InitOut ==
    /\ TimerInit(NTimers)
    /\ \E size \in 0 .. MaxOutBuffering, fdset \in {NULL} \cup (1 .. NFdsets) :
           LET c1 == [conn_wrap_fd EXCEPT !.output_buffering = size]
           IN  ConnStarted(IF fdset = NULL THEN c1 ELSE conn_register(c1, fdset, 1, 1).c,
                           TRUE)

NextOut ==
    \/ \E data \in Data : write(data) /\ UNCHANGED tvars
    \/ \E data \in Data : write_data(data, Len(data)) /\ UNCHANGED tvars
    \/ \E data \in Data : write_withlen(data) /\ UNCHANGED tvars
    \/ \E size \in 0 .. MaxOutBuffering : set_output_buffering(size) /\ UNCHANGED tvars
    \/ \E fdset \in 1 .. NFdsets : register(fdset, 1, 1) /\ UNCHANGED tvars
    \/ unregister /\ UNCHANGED tvars
    \/ \E revents \in SUBSET {"POLLIN", "POLLOUT"} :
          poll_callback(revents) /\ UNCHANGED tvars
    \/ poll_callback_pollin /\ UNCHANGED tvars
    \/ poll_callback_load /\ UNCHANGED tvars
    \/ poll_callback_call /\ UNCHANGED tvars
    \/ wait /\ UNCHANGED tvars
    \/ wait_lock_in /\ UNCHANGED tvars
    \/ \E ret \in PollRets(wait_events) : wait_poll(ret) /\ UNCHANGED tvars
    \/ wait_read /\ UNCHANGED tvars
    \/ flush /\ UNCHANGED tvars
    \/ \E revents \in PollRets({"POLLOUT"}) : flush_poll(revents) /\ UNCHANGED tvars

SpecOut == InitOut /\ [][NextOut]_vars

\* ------------------------------------------------------------ properties
Elapse(i) == elapses[list_get(heap, i)]
InHeap(t) == \E i \in 1 .. Len(heap) : heap[i] = t
ItemsBy(t) == {i \in 1 .. Len(output) : output[i].by = t}
Due(t) == elapses[t] > 0 /\ elapses[t] <= now

\* C1, as stated: with the set mutex free, every element of the
\* heap elapses no later than the elements at 2i+1 and 2i+2.
C1_BinaryHeap ==
    \A i \in 0 .. list_len(heap) - 1 :
        /\ 2 * i + 1 < list_len(heap) => Elapse(i) <= Elapse(2 * i + 1)
        /\ 2 * i + 2 < list_len(heap) => Elapse(i) <= Elapse(2 * i + 2)

\* C1, amended: with the set mutex free, every element i >= 1 of the heap
\* elapses no earlier than its parent, the element at i/2 rounded down.
C1_HeapOrder ==
    \A i \in 1 .. list_len(heap) - 1 : Elapse(i \div 2) <= Elapse(i)

C1_Witness ==
    /\ calls = MaxHeapCalls
    /\ list_len(heap) = NHeapTimers - 1
    /\ list_len(output) = 1

\* C2: with the set mutex free, index >= 0 iff elapses >= 0 iff the timer is
\* in the heap, it is there at most once, heap[index] is the timer, and no
\* gw_assert of timer_start or timer_stop has failed.
C2_IndexInvariant ==
    /\ panic \notin {"timer_start: list_get(heap, index) == timer",
                     "timer_start: index < 0",
                     "timer_stop: list_get(heap, index) == timer"}
    /\ \A t \in Timers :
          /\ (index[t] >= 0) <=> (elapses[t] >= 0)
          /\ (elapses[t] >= 0) <=> InHeap(t)
          /\ Cardinality({i \in 1 .. Len(heap) : heap[i] = t}) <= 1
          /\ InHeap(t) => in_heap_at(t)

C2_Witness ==
    /\ calls = MaxCalls
    /\ list_len(heap) = 2
    /\ index[2] = 0 /\ index[1] = 1
    /\ elapses[2] < elapses[1]

\* C3: a timer whose elapsed_event is set is not in the heap, and the
\* gw_assert of elapse_timer has not failed.
C3_ElapsedNotInHeap ==
    /\ panic # "elapse_timer: elapsed_event == NULL"
    /\ \A t \in Timers : elapsed_event[t] # NULL => index[t] = -1

C3_Witness ==
    \E t \in Timers :
        /\ calls = MaxCalls
        /\ nprod[t] = 1
        /\ elapsed_event[t] # NULL

\* C4: from the return of timer_stop(t) until t is started again, the output
\* list holds no item produced for t, and t is not in the heap.
C4_StopRetracts ==
    \A t \in Timers :
        stopped[t] => ItemsBy(t) = {} /\ index[t] = -1 /\ elapses[t] = -1

\* C5: once timer_start was given a non-null event for t, t.event is the
\* last such event.
C5_EventStored ==
    \A t \in Timers : lastP[t] # NULL => event[t] = lastP[t]

\* C6: a pending timer whose time has come gets its item produced, unless it
\* is stopped or started again first; and never more than one item.
C6_DueTimerElapses ==
    \A t \in 1 .. NFairTimers :
        /\ [](nprod[t] <= 1)
        /\ Due(t) ~> (nprod[t] = 1 \/ stopped[t] \/ elapses[t] > now)

\* the watcher has chosen to sleep (very long) and the wakeup of a start
\* that came after it read the heap is pending
C6_Witness ==
    \E t \in Timers :
        Due(t) /\ wpc = "sleep" /\ pipe /\ sleep_until > MaxClock

C8_ElapseOrder == [][lastprod' >= lastprod]_vars

C8_Witness ==
    /\ list_len(output) = 2
    /\ output[1].by # output[2].by
    /\ output[1].at < output[2].at

\* C9: every event the watcher produced has one owner: the timer never
\* destroyed an event that was not on the output list, what is on the list is
\* alive and not with the consumer, what the consumer holds is alive.
C9_OneOwner ==
    /\ ~owner_err
    /\ \A i \in 1 .. Len(output) :
          output[i].ptr # NULL =>
              /\ mem[output[i].ptr] = "queued"
              /\ held.ptr # output[i].ptr
              /\ \A j \in 1 .. Len(output) : output[j].ptr = output[i].ptr => j = i
    /\ held # NoItem => mem[held.ptr] = "taken"

\* the consumer took the event, then timer_stop found nothing to delete
C9_Witness ==
    /\ held # NoItem
    /\ stopped[held.by]
    /\ elapsed_event[held.by] = NULL

\* C10: in every state of a Connection, after any sequence of calls,
\* 0 <= outbufpos <= len(outbuf) and 0 <= inbufpos <= len(inbuf).
C10_BufferPositions ==
    /\ 0 <= conn.outbufpos /\ conn.outbufpos <= octstr_len(conn.outbuf)
    /\ 0 <= conn.inbufpos /\ conn.inbufpos <= octstr_len(conn.inbuf)

\* conn_read_withlen has skipped a negative length and found the frame after
\* it incomplete; a write has left part of its octets unsent
C10_Witness ==
    /\ conn.inbuf = <<255, 255, 255, 255, 0, 0, 0, 1>>
    /\ conn.inbufpos = 4
    /\ 0 < conn.outbufpos /\ conn.outbufpos < octstr_len(conn.outbuf)

\* SpecIn: the input side of one Connection, with the history kept.  It
\* begins where the caller has wrapped the fd and has or has not called
\* conn_register.  The fd may deliver octets after an end of file.  Nothing
\* is written, so that conn_wait never polls for POLLOUT and its step
\* wait_read, the read after a write, is not among the steps.
\* InChunks is what the peer sends at a time: an octet and the end of a line.
InChunks == {<<2, 13, 10>>}

InitIn ==
    /\ TimerInit(NTimers)
    /\ \E fdset \in {NULL} \cup (1 .. NFdsets) :
           ConnStarted(IF fdset = NULL THEN conn_wrap_fd
                       ELSE conn_register(conn_wrap_fd, fdset, 1, 1).c, TRUE)

NextIn ==
    \/ read_everything /\ UNCHANGED tvars
    \/ \E length \in 0 .. MaxLength : read_fixed(length) /\ UNCHANGED tvars
    \/ read_line /\ UNCHANGED tvars
    \/ read_withlen /\ UNCHANGED tvars
    \/ \E startmark \in Marks, endmark \in Marks :
          read_packet(startmark, endmark) /\ UNCHANGED tvars
    \/ \E fdset \in 1 .. NFdsets : register(fdset, 1, 1) /\ UNCHANGED tvars
    \/ unregister /\ UNCHANGED tvars
    \/ \E revents \in SUBSET {"POLLIN", "POLLOUT"} :
          poll_callback(revents) /\ UNCHANGED tvars
    \/ poll_callback_pollin /\ UNCHANGED tvars
    \/ poll_callback_load /\ UNCHANGED tvars
    \/ poll_callback_call /\ UNCHANGED tvars
    \/ wait /\ UNCHANGED tvars
    \/ wait_lock_in /\ UNCHANGED tvars
    \/ \E ret \in PollRets(wait_events) : wait_poll(ret) /\ UNCHANGED tvars
    \/ \E octets \in InChunks : peer_send(octets) /\ UNCHANGED tvars
    \/ peer_close /\ UNCHANGED tvars
    \/ peer_reopen /\ UNCHANGED tvars

SpecIn == InitIn /\ [][NextIn]_vars

\* C11: when conn_write, conn_write_data or conn_write_withlen returns 0, no
\* unsent octet is left in outbuf (outbufpos = len(outbuf)); when unsent
\* octets are left it returns 1, or -1 after a write error.
C11_WriteResult ==
    hist.op = "conn_write" =>
        /\ hist.ret \in {-1, 0, 1}
        /\ hist.ret = 0 => conn.outbufpos = octstr_len(conn.outbuf)
        /\ unlocked_outbuf_len(conn) > 0 => hist.ret \in {1, -1}

\* a write has returned 1 with fewer octets left than output_buffering,
\* after a partial write
C11_Witness ==
    /\ hist.op = "conn_write" /\ hist.ret = 1
    /\ conn.outbufpos > 0
    /\ unlocked_outbuf_len(conn) < conn.output_buffering

\* the unread octets of inbuf
unread(c) == SubSeq(c.inbuf, c.inbufpos + 1, Len(c.inbuf))

\* the step left in inbuf something that was not there before
appended == \A k \in 0 .. Len(unread(conn)) :
                unread(conn') # SubSeq(unread(conn), k + 1, Len(unread(conn)))

\* C12, as stated: once read_eof is set no step appends an octet to inbuf,
\* whatever the fd returns later, and read_eof and read_error are never reset.
C12_NothingAfterEof ==
    [][/\ conn.read_eof => conn'.read_eof /\ ~appended
       /\ conn.read_error => conn'.read_error]_vars

\* C12, amended: read_eof and read_error are never reset, and once read_eof
\* is set a step appends to inbuf only what a later read(2) returned: no
\* octet is appended as long as the fd returns none.
C12_EofSticky ==
    [][/\ conn.read_eof => conn'.read_eof
       /\ conn.read_error => conn'.read_error
       /\ conn.read_eof /\ appended =>
              /\ hist'.op = "read" /\ hist'.ret > 0
              /\ LET all == unread(conn) \o SubSeq(rfd, 1, hist'.ret)
                 IN  /\ rfd' = SubSeq(rfd, hist'.ret + 1, Len(rfd))
                     /\ \E k \in 0 .. Len(all) :
                            unread(conn') = SubSeq(all, k + 1, Len(all))]_vars

\* read(2) has returned octets to a Connection whose read_eof is set
C12_Witness ==
    /\ conn.read_eof /\ hist.op = "read" /\ hist.ret > 0
    /\ unlocked_inbuf_len(conn) > 0

\* C13, as stated: for a registered Connection, after conn_register and
\* after every step that ran the non-blocking write (in conn_write*,
\* conn_set_output_buffering, conn_wait, conn_flush, poll_callback),
\* listening_pollout is true iff unsent octets are left in outbuf.
C13_PolloutShadow ==
    conn.registered # NULL /\ (hist.op = "conn_register" \/ hist.wrote # "no") =>
        (conn.listening_pollout <=> unlocked_outbuf_len(conn) > 0)

\* C13, amended: for a registered Connection, after a step in which
\* conn_register registered it and after every step in which unlocked_write
\* wrote without an error, listening_pollout is true iff unsent octets are
\* left in outbuf; a write error, unlocked_try_write holding the octets back
\* and a conn_register of a registered Connection leave listening_pollout
\* as it was before the step.
C13_PolloutUpdated ==
    [][/\ conn'.registered # NULL /\ (hist'.wrote = "done" \/ conn.registered = NULL) =>
             (conn'.listening_pollout <=> unlocked_outbuf_len(conn') > 0)
       /\ \/ hist'.wrote \in {"failed", "skipped"}
          \/ hist'.op = "conn_register" /\ conn.registered # NULL
          => conn'.listening_pollout = conn.listening_pollout]_vars

\* unlocked_write has written part of outbuf of a registered Connection
\* with output_buffering, and it listens for POLLOUT
C13_Witness ==
    /\ conn.registered # NULL /\ hist.wrote = "done"
    /\ conn.output_buffering > 0
    /\ unlocked_outbuf_len(conn) > 0 /\ conn.listening_pollout

\* C14: with the inlock free, a registered Connection that has read_eof or
\* read_error set does not listen for POLLIN.
C14_NoPollinAfterEof ==
    conn.registered # NULL /\ (conn.read_eof \/ conn.read_error) =>
        ~conn.listening_pollin

\* conn_register has registered a Connection that had met the end of file
C14_Witness ==
    /\ hist.op = "conn_register" /\ hist.ret = 0
    /\ conn.registered # NULL /\ conn.read_eof /\ ~conn.read_error

\* SpecReg: one Connection whose registration changes while the poller
\* thread is in poll_callback and other threads are in conn_wait and
\* conn_flush, with the history kept.  It begins where the caller has
\* wrapped the fd, has or has not called conn_write with an octet that
\* write(2) did not take, and has or has not called conn_register after it.
\* Nothing arrives on the fd.
Callbacks == {1, 2}
RegData == {<<1>>}

InitReg ==
    /\ TimerInit(NTimers)
    /\ \E octets \in {<<>>} \cup RegData, fdset \in {NULL} \cup (1 .. NRegFdsets) :
           LET c1 == [conn_wrap_fd EXCEPT !.outbuf = octets]
           IN  ConnStarted(IF fdset = NULL THEN c1 ELSE conn_register(c1, fdset, 1, 1).c,
                           TRUE)

NextReg ==
    \/ read_everything /\ UNCHANGED tvars
    \/ \E length \in 0 .. MaxLength : read_fixed(length) /\ UNCHANGED tvars
    \/ read_line /\ UNCHANGED tvars
    \/ read_withlen /\ UNCHANGED tvars
    \/ \E startmark \in Marks, endmark \in Marks :
          read_packet(startmark, endmark) /\ UNCHANGED tvars
    \/ \E data \in RegData : write(data) /\ UNCHANGED tvars
    \/ \E data \in RegData : write_data(data, Len(data)) /\ UNCHANGED tvars
    \/ \E data \in RegData : write_withlen(data) /\ UNCHANGED tvars
    \/ \E size \in 0 .. MaxBuffering : set_output_buffering(size) /\ UNCHANGED tvars
    \/ \E fdset \in 1 .. NRegFdsets, callback \in Callbacks :
          register(fdset, callback, callback) /\ UNCHANGED tvars
    \/ unregister /\ UNCHANGED tvars
    \/ \E revents \in SUBSET {"POLLIN", "POLLOUT"} :
          poll_callback(revents) /\ UNCHANGED tvars
    \/ poll_callback_pollin /\ UNCHANGED tvars
    \/ poll_callback_load /\ UNCHANGED tvars
    \/ poll_callback_call /\ UNCHANGED tvars
    \/ wait /\ UNCHANGED tvars
    \/ wait_lock_in /\ UNCHANGED tvars
    \/ \E ret \in PollRets(wait_events) : wait_poll(ret) /\ UNCHANGED tvars
    \/ wait_read /\ UNCHANGED tvars
    \/ flush /\ UNCHANGED tvars
    \/ \E revents \in PollRets({"POLLOUT"}) : flush_poll(revents) /\ UNCHANGED tvars

SpecReg == InitReg /\ [][NextReg]_vars

\* C15: poll_callback goes on to the call of the callback exactly when its
\* revents has POLLIN; it comes to the call by a step that ran unlocked_read
\* under the inlock; where it is about to call the callback, and when it
\* calls it, its thread holds neither lock of the connection.
C15_CallbackUnlocked ==
    [][/\ hist'.polled # {"none"} =>
              (("POLLIN" \in hist'.polled) <=> poll_pc' # "idle")
       /\ poll_pc # "callback" /\ poll_pc' = "callback" => hist'.op = "read"
       /\ poll_pc' \in {"callback", "call"} =>
              /\ inlock' # "poll_callback"
              /\ outlock' # "poll_callback"
              /\ "POLLIN" \in poller'.revents
       /\ hist'.op = "callback" =>
              /\ poll_pc = "call"
              /\ inlock # "poll_callback" /\ inlock' # "poll_callback"
              /\ outlock # "poll_callback" /\ outlock' # "poll_callback"]_vars

C15_Witness ==
    /\ hist.op = "callback"
    /\ conn.registered # NULL
    /\ hist.ret = conn.callback

\* C16: no thread makes a lock_out while it holds the inlock; the only
\* functions in which a thread holds both locks are conn_register and
\* conn_unregister, which take the outlock first; in every other function
\* a thread holds at most one of the two locks at a time.
C16_LockOrder ==
    /\ ~lock_hist.nested
    /\ lock_hist.both \subseteq {"conn_register", "conn_unregister"}

C16_Witness ==
    /\ lock_hist.both = {"conn_register", "conn_unregister"}
    /\ hist.op = "conn_unregister"
    /\ inlock = "free" /\ outlock = "free"

\* C17: where a thread is in the gwthread_pollfd of conn_wait or in the one
\* of conn_flush, in any iteration of its loop, it holds neither the inlock
\* nor the outlock of the connection.
C17_PollUnlocked ==
    /\ wait_pc = "poll" => inlock # "conn_wait" /\ outlock # "conn_wait"
    /\ flush_pc = "poll" => inlock # "conn_flush" /\ outlock # "conn_flush"

C17_Witness ==
    /\ wait_pc = "poll"
    /\ flush_pc = "poll"
    /\ unlocked_outbuf_len(conn) > 0

\* C18: the octets that write(2) has taken so far, followed by the unsent
\* part of outbuf, are the octets of all the calls of conn_write,
\* conn_write_data and conn_write_withlen so far, in the order in which the
\* calls took the outlock, the four octets of a length directly before the
\* data they belong to.
C18_WriteOrder ==
    hist.sent \o SubSeq(conn.outbuf, conn.outbufpos + 1, Len(conn.outbuf)) = hist.written

\* a partial write has cut the length of a conn_write_withlen in two,
\* unlocked_write has discarded what was written, and another call has
\* appended after it
C18_Witness ==
    /\ hist.op = "conn_write"
    /\ Len(hist.sent) \in 1 .. 3
    /\ hist.written[1] = 0
    /\ Len(hist.written) > 5
    /\ Len(conn.outbuf) < Len(hist.written)
    /\ unlocked_outbuf_len(conn) > 0

C20_NoCallbackAfterUnregister ==
    /\ hist.op = "callback" => conn.registered # NULL
    /\ cpanic # "poll_callback: conn->callback is NULL"

\* SpecWithlen: conn_read_withlen on one Connection.  It begins where the
\* caller has wrapped the fd and the peer has sent some negative lengths, a
\* frame, and nothing more or the start of a frame whose length says more
\* than the peer sent.  read(2) delivers the octets in pieces of any size.
RECURSIVE Repeat(_, _)
Repeat(octets, k) == IF k = 0 THEN <<>> ELSE octets \o Repeat(octets, k - 1)

Skips == {Repeat(neg, k) : neg \in {<<255, 255, 255, 255>>, <<128, 0, 0, 0>>},
                           k \in 0 .. MaxSkips}

Frames == {encode_network_long(n) \o [i \in 1 .. n |-> i + 4] : n \in 0 .. MaxFrame}

Tails == {<<>>, <<0, 0, 1, 0, 9>>}

InitWithlen ==
    /\ TimerInit(NTimers)
    /\ \E skips \in Skips, frame \in Frames, tail \in Tails :
           ConnArrived(conn_wrap_fd, TRUE, skips \o frame \o tail)

NextWithlen ==
    \/ read_withlen /\ UNCHANGED tvars
    \/ peer_close /\ UNCHANGED tvars

SpecWithlen == InitWithlen /\ [][NextWithlen]_vars

\* the four octets of all after the first 4 * j, as a length
long_at(all, j) == decode_network_long(SubSeq(all, 4 * j + 1, 4 * j + 4))

\* the number of negative lengths that all begins with
negatives(all) ==
    CHOOSE k \in 0 .. Len(all) \div 4 :
        /\ \A j \in 0 .. k - 1 : long_at(all, j) < 0
        /\ 4 * (k + 1) > Len(all) \/ long_at(all, k) >= 0

C22_TopIsFirst ==
    \A i \in 0 .. list_len(heap) - 1 : Elapse(0) <= Elapse(i)

\* a timer_start of a running timer has moved it to the top of a heap of
\* all the timers
C22_Witness ==
    /\ calls = MaxHeapCalls
    /\ list_len(heap) = NHeapTimers
    /\ index[NHeapTimers] = 0
    /\ elapses[NHeapTimers] = now
    /\ \E i \in 1 .. list_len(heap) - 1 : Elapse(i) > Elapse(0)

\* C23: a call of timer_start or timer_stop leaves the caller about to
\* issue gwthread_wakeup exactly if the heap is not empty after it and was
\* empty before it, or its top elapses earlier than the top before it; and
\* the wakeup is issued by a later step of the caller, after the step that
\* ran under the set mutex.
C23_WakeupIffEarlier ==
    [][/\ calls' # calls /\ panic' = "none" =>
              ((cpc' = "wakeup") <=>
                   /\ heap' # <<>>
                   /\ heap = <<>> \/ elapses'[heap'[1]] < elapses[heap[1]])
       /\ pipe' /\ ~pipe => calls' = calls /\ cpc = "wakeup" /\ cpc' = "idle"]_vars

\* timer_start has reset the second of two running timers to elapse before
\* the first, and is about to wake the watcher
C23_Witness ==
    /\ cpc = "wakeup"
    /\ list_len(heap) = 2
    /\ index[2] = 0
    /\ short[2]
    /\ elapses[2] < elapses[1]

\* SpecLock: SpecReg with the getters called as well.
NextLock ==
    \/ NextReg
    \/ outbuf_len /\ UNCHANGED tvars
    \/ inbuf_len /\ UNCHANGED tvars
    \/ eof /\ UNCHANGED tvars
    \/ read_error /\ UNCHANGED tvars

SpecLock == InitReg /\ [][NextLock]_vars

\* the function fn is inside a call: the functions that return within the
\* step that called them are never inside a call between steps
running(fn) ==
    \/ fn = "conn_flush" /\ flush_pc # "idle"
    \/ fn = "conn_wait" /\ wait_pc # "idle"
    \/ fn = "poll_callback" /\ poll_pc # "idle"

\* C24: a lock of the connection is held only by a function that has not
\* returned yet: every public operation returns with neither the inlock
\* nor the outlock held, so that after conn_flush has returned a later
\* conn_write or conn_outbuf_len finds the outlock free.
C24_ReturnsUnlocked ==
    /\ inlock # "free" => running(inlock)
    /\ outlock # "free" => running(outlock)

\* SpecDestroy: SpecReg with conn_destroy called as well, and no function
\* called for a connection that conn_destroy has freed.
NextDestroy ==
    \/ conn.fd >= 0 /\ NextReg
    \/ destroy /\ UNCHANGED tvars

SpecDestroy == InitReg /\ [][NextDestroy]_vars

\* fdset_listen is called where a function other than conn_register and
\* conn_unregister changes listening_pollin or listening_pollout
\* (unlocked_register_pollin, unlocked_register_pollout), for the fdset in
\* registered
fdset_listen_called ==
    /\ conn'.registered = conn.registered
    /\ \/ conn'.listening_pollin # conn.listening_pollin
       \/ conn'.listening_pollout # conn.listening_pollout

\* C25: a step that calls fdset_listen calls it for an fdset with which the
\* fd is lodged at the end of the step: no fdset_listen follows the
\* fdset_unregister of conn_unregister or of conn_destroy unless
\* conn_register was called again.
C25_NoListenAfterUnregister ==
    [][fdset_listen_called =>
          \E i \in 1 .. Len(hist'.lodged) : hist'.lodged[i] = conn.registered]_vars

\* FairDestroy: the caller starts timers and then calls timerset_destroy,
\* while the watcher thread runs; both threads are scheduled fairly.  The
\* test of the watcher's loop is a step of its own here.
DestroyInit == TimerInit(NDestroyTimers) /\ ConnInit

DestroyNext ==
    \/ \E t \in Timers, i \in 0 .. MaxInterval, e \in {NULL, 1} :
          calls < MaxDestroyCalls /\ timer_start(t, i, e) /\ UNCHANGED cvars
    \/ caller_wakeup /\ UNCHANGED cvars
    \/ watch_test /\ UNCHANGED cvars
    \/ watch_turn /\ UNCHANGED cvars
    \/ sleep_return /\ UNCHANGED cvars
    \/ timerset_destroy /\ UNCHANGED cvars
    \/ destroy_len /\ UNCHANGED cvars
    \/ destroy_get /\ UNCHANGED cvars
    \/ destroy_stop /\ UNCHANGED cvars
    \/ destroy_stopping /\ UNCHANGED cvars
    \/ destroy_wakeup /\ UNCHANGED cvars
    \/ destroy_join /\ UNCHANGED cvars
    \/ Tick /\ UNCHANGED cvars

FairDestroy ==
    /\ DestroyInit /\ [][DestroyNext]_vars
    /\ WF_vars(watch_test /\ UNCHANGED cvars)
    /\ WF_vars(watch_turn /\ UNCHANGED cvars)
    /\ WF_vars(sleep_return /\ UNCHANGED cvars)
    /\ WF_vars(destroy_len /\ UNCHANGED cvars)
    /\ WF_vars(destroy_get /\ UNCHANGED cvars)
    /\ WF_vars(destroy_stop /\ UNCHANGED cvars)
    /\ WF_vars(destroy_stopping /\ UNCHANGED cvars)
    /\ WF_vars(destroy_wakeup /\ UNCHANGED cvars)
    /\ WF_vars(destroy_join /\ UNCHANGED cvars)

\* C26: a call of timerset_destroy returns: it empties the heap, sets
\* stopping, wakes the watcher, which leaves its loop, and joins it.
C26_DestroyTerminates == (cpc = "destroy") ~> (cpc = "destroyed")

====
